---- MODULE Spec2Model ----
(***************************************************************************)
(* Subscription provisioning reconciliation engine of DataWeapons.         *)
(*                                                                         *)
(* The module models the Stripe webhook handler                            *)
(* (supabase/functions/stripe-webhook/index.ts) as a set of concurrently   *)
(* running invocations over three shared stores (identities, user          *)
(* profiles, subscriptions).  Every await on a collaborator is one atomic  *)
(* step; the code between two awaits belongs to the step that follows the  *)
(* first await.                                                            *)
(*                                                                         *)
(* Strings that the code splits are kept in split form: the header         *)
(* "t=1,v1=ab" is <<<<"t", "1">>, <<"v1", "ab">>>> (split(',') gives the   *)
(* outer sequence, split('=') the inner one).  The header that is absent  *)
(* or empty, which !signature takes alike, is <<>>.                        *)
(***************************************************************************)
EXTENDS Integers, Sequences, FiniteSets, TLC

VARIABLES
    identities,     \* auth.users: set of [id, email, password]
    nextId,         \* next identity id the auth store hands out
    profiles,       \* user_profiles: sequence of rows
    subscriptions,  \* subscriptions: sequence of rows, in insertion order
    pc,             \* pc[h]: position of invocation h
    loc,            \* loc[h]: locals of invocation h
    delivered,      \* number of deliveries started so far
    response,       \* the response returned by the step just taken, or NoResponse
    sigIn,          \* signature harness: <<header, body>> under test
    sigOut,         \* signature harness: the verdict on sigIn, or Null
    replayed,       \* replay harness: the one event the provider redelivers
    acks,           \* replay harness: deliveries of it answered 200
    corrIn,         \* correlation harness: the lookups' results under test
    corrOut,        \* correlation harness: what the handler took from them
    checkoutIn,     \* create-checkout-session: the request under test
    checkoutOut,    \* create-checkout-session: its response and the sessions created
    poller,         \* the page after the redirect back from checkout
    deletion        \* delete-account: the request under way, what it did, its answer

vars == <<identities, nextId, profiles, subscriptions, pc, loc, delivered,
          response, sigIn, sigOut, replayed, acks, corrIn, corrOut,
          checkoutIn, checkoutOut, poller, deletion>>

Null == "null"

(***************************************************************************)
(* Bounds                                                                  *)
(***************************************************************************)
MaxDeliveries == 2
MaxElements == 3

(***************************************************************************)
(* Signature verification (index.ts 58-141)                                *)
(***************************************************************************)
STRIPE_WEBHOOK_SECRET == "whsec_live"

\* `${timestamp}.${body}`
SignedPayload(timestamp, body) == <<timestamp, ".", body>>

\* HMAC-SHA256 as an ideal MAC, hex encoded: distinct (key, message) pairs
\* give distinct digests.
HmacSha256Hex(key, message) == <<"hmac-sha256", key, message>>

\* e.startsWith(prefix + '=') for an element kept in split('=') form
StartsWith(e, name) == Len(e) >= 2 /\ e[1] = name

\* elements.find(e => e.startsWith('t='))?.split('=')[1]
Timestamp(elements) ==
    LET idx == {i \in 1..Len(elements) : StartsWith(elements[i], "t")}
    IN  IF idx = {} THEN Null
        ELSE elements[CHOOSE i \in idx : \A j \in idx : i <= j][2]

\* elements.filter(e => e.startsWith('v1=')).map(e => e.split('=')[1])
Signatures(elements) ==
    LET F[i \in 0..Len(elements)] ==
            IF i = 0 THEN <<>>
            ELSE IF StartsWith(elements[i], "v1")
                 THEN Append(F[i - 1], elements[i][2])
                 ELSE F[i - 1]
    IN  F[Len(elements)]

\* A comparison that stops at the length test.
LengthOnlyEqual(sig, computedSignature) == Len(sig) = Len(computedSignature)

ConstantTimeEqual(sig, computedSignature) ==
    IF Len(sig) # Len(computedSignature) THEN FALSE
    ELSE sig = computedSignature

\* A verification that stops at the format test and computes no HMAC.
VerifyFormatOnly(signature, body) ==
    IF Len(signature) = 0 THEN "missing_header"
    ELSE IF Timestamp(signature) = Null \/ Timestamp(signature) = ""
            \/ Len(Signatures(signature)) = 0
         THEN "invalid_format"
         ELSE "ok"

\* The result of the verification block: "ok", or the reason of the throw.
VerifySignature(signature, body) ==
    IF Len(signature) = 0 THEN "missing_header"
    ELSE LET timestamp == Timestamp(signature)
             signatures == Signatures(signature)
         IN  IF timestamp = Null \/ timestamp = "" \/ Len(signatures) = 0
             THEN "invalid_format"
             ELSE LET computedSignature ==
                          HmacSha256Hex(STRIPE_WEBHOOK_SECRET,
                                        SignedPayload(timestamp, body))
                  IN  IF \E i \in 1..Len(signatures) :
                             ConstantTimeEqual(signatures[i], computedSignature)
                      THEN "ok"
                      ELSE "mismatch"

\* The body is the JSON text of the event; JSON.parse gives the event back.
RawBody(event) == <<"json", event>>
JsonParse(body) == body[2]

(***************************************************************************)
(* JavaScript values                                                       *)
(***************************************************************************)
\* !x for a string-or-null value
Falsy(x) == x = Null \/ x = ""

\* a || b
OrElse(a, b) == IF Falsy(a) THEN b ELSE a

\* s.trim(), on the strings the model draws
Trim(s) ==
    CASE s = "  " -> ""
      [] s = " abcdef " -> "abcdef"
      [] OTHER -> s

\* userPassword && userPassword.trim() !== ''
HasPassword(userPassword) == ~Falsy(userPassword) /\ Trim(userPassword) # ""

\* new Date(seconds * 1000).toISOString()
ToISOString(seconds) == <<"iso-ms", seconds * 1000>>

\* subscription.status === 'active' ? 'active' : 'inactive'
ProfileStatus(status) == IF status = "active" THEN "active" ELSE "inactive"

(***************************************************************************)
(* The record store (supabase.from(...).upsert / update)                   *)
(***************************************************************************)
\* A row with the columns of the payload overwritten: ON CONFLICT DO UPDATE
\* sets exactly the columns the payload carries.
Merge(row, payload) ==
    [c \in DOMAIN row |-> IF c \in DOMAIN payload THEN payload[c] ELSE row[c]]

NewSubscriptionRow ==
    [user_id |-> Null, stripe_subscription_id |-> Null, stripe_customer_id |-> Null,
     status |-> Null, current_period_start |-> Null, current_period_end |-> Null]

NewProfileRow ==
    [id |-> Null, email |-> Null, stripe_customer_id |-> Null,
     subscription_status |-> Null]

\* A plain insert, with no conflict clause.
InsertOnly(rows, payload, key, blank) == Append(rows, Merge(blank, payload))

\* upsert(payload, { onConflict: key })
Upsert(rows, payload, key, blank) ==
    IF \E i \in 1..Len(rows) : rows[i][key] = payload[key]
    THEN [i \in 1..Len(rows) |->
             IF rows[i][key] = payload[key] THEN Merge(rows[i], payload) ELSE rows[i]]
    ELSE Append(rows, Merge(blank, payload))

\* An update without its filter: every row is written.
UpdateAll(rows, payload, key, value) ==
    [i \in 1..Len(rows) |-> Merge(rows[i], payload)]

\* update(payload).eq(key, value)
UpdateWhere(rows, payload, key, value) ==
    [i \in 1..Len(rows) |->
        IF rows[i][key] = value THEN Merge(rows[i], payload) ELSE rows[i]]

(***************************************************************************)
(* The identity store (supabase.auth.admin)                                *)
(***************************************************************************)
\* existingUsers.users.find(u => u.email === userEmail)
FindUserByEmail(users, userEmail) ==
    IF \E u \in users : u.email = userEmail
    THEN (CHOOSE u \in users : u.email = userEmail).id
    ELSE Null

\* The store refuses an email it already holds and a password shorter than
\* six characters (the length rule the handler's comment names).
EmailTaken(users, email) == \E u \in users : u.email = email

\* A store with the length rule and no uniqueness rule on the email.
CreateUserRejectedLengthOnly(users, email, password) == Len(password) < 6

CreateUserRejected(users, email, password) ==
    EmailTaken(users, email) \/ Len(password) < 6

NewUserId(n) == "user_" \o ToString(n)

(***************************************************************************)
(* What the payment provider can send and answer                           *)
(***************************************************************************)
Handlers == {"h1", "h2"}
SlotBefore(a, b) == a = "h1" /\ b = "h2"

Emails == {"a@x.com"}
Customers == {"cus_1"}
Subs == {"sub_1", "sub_2"}
PreUser == "user_pre"

\* A subscription object's status and period bounds (seconds).
Snapshots ==
    {[status |-> "active", period |-> <<100, 200>>],
     [status |-> "canceled", period |-> <<200, 300>>]}

MetaUserIds == {Null, "", PreUser}
MetaPasswords == {Null, "  ", "abcdef", " abcdef "}

\* customer_email and metadata.userEmail of a session: neither, the
\* customer's only, both.
MetaEmails ==
    {[customer_email |-> Null, userEmail |-> Null]}
        \cup {[customer_email |-> e, userEmail |-> Null] : e \in Emails}
        \cup {[customer_email |-> e, userEmail |-> e] : e \in Emails}

CheckoutEvents ==
    {[type |-> "checkout.session.completed", subscription |-> s,
      customer_email |-> m.customer_email, userId |-> u,
      userEmail |-> m.userEmail, userPassword |-> p] :
        s \in Subs \cup {Null}, m \in MetaEmails, u \in MetaUserIds,
        p \in MetaPasswords}

SubscriptionEvents(types) ==
    {[type |-> t, id |-> s, customer |-> c, status |-> n.status,
      period |-> n.period] :
        t \in types, s \in Subs, c \in Customers, n \in Snapshots}

CreatedEvents == SubscriptionEvents({"customer.subscription.created"})

LifecycleEvents ==
    SubscriptionEvents({"customer.subscription.updated",
                        "customer.subscription.deleted"})

OtherEvents == {[type |-> "invoice.paid"]}

\* Two events: a rejected delivery is never parsed, so nothing
\* of it but the signed bytes is read.
ProbeEvents ==
    {CHOOSE e \in CheckoutEvents : TRUE, CHOOSE e \in OtherEvents : TRUE}

\* The signature headers a delivery of `event` may carry: none, the
\* provider's, one signed with another secret, one signed over another
\* body (the body was altered after signing), one without a timestamp.
TimestampNow == "1700000000"

ProviderHeader(key, body) ==
    <<<<"t", TimestampNow>>,
      <<"v1", HmacSha256Hex(key, SignedPayload(TimestampNow, body))>>>>

HeadersFor(event) ==
    {<<>>,
     ProviderHeader(STRIPE_WEBHOOK_SECRET, RawBody(event)),
     ProviderHeader("whsec_other", RawBody(event)),
     ProviderHeader(STRIPE_WEBHOOK_SECRET, RawBody([type |-> "invoice.voided"])),
     <<<<"v1", HmacSha256Hex(STRIPE_WEBHOOK_SECRET,
                             SignedPayload(TimestampNow, RawBody(event)))>>>>}

\* Whether the provider signed this very body with the endpoint's secret
\* under the header's timestamp (what the verification is there to decide).
SignedByProvider(signature, body) ==
    /\ \E i \in 1..Len(signature) : StartsWith(signature[i], "t")
    /\ ~Falsy(Timestamp(signature))
    /\ \E i \in 1..Len(signature) :
          /\ StartsWith(signature[i], "v1")
          /\ signature[i][2] = HmacSha256Hex(STRIPE_WEBHOOK_SECRET,
                                   SignedPayload(Timestamp(signature), body))

\* Checkout sessions stripe.checkout.sessions.list may return for an email.
Times == {10000}
RecencyWindow == 3600

SessionPool ==
    {[subscription |-> s, created |-> c, customer_email |-> e, userId |-> u,
      userEmail |-> e, userPassword |-> p] :
        s \in Subs \cup {Null}, c \in {5000, 9500}, e \in Emails,
        u \in {Null, PreUser}, p \in {Null, "abcdef"}}

SessionLists == {<<>>} \cup {<<a>> : a \in SessionPool}

\* The whole list, neither filtered nor sorted.
Unfiltered(data, subscriptionId, now) == data

\* 417-420: the filter, then the sort by created, newest first (the sort is
\* stable: of two sessions created together the one listed first stays first).
RecentSessions(data, subscriptionId, now) ==
    LET keep == {i \in 1..Len(data) :
                    \/ data[i].subscription = subscriptionId
                    \/ data[i].created > now - RecencyWindow}
        Before(i, j) == \/ data[i].created > data[j].created
                        \/ data[i].created = data[j].created /\ i < j
        Rank(i) == 1 + Cardinality({j \in keep : Before(j, i)})
    IN  [k \in 1..Cardinality(keep) |-> data[CHOOSE i \in keep : Rank(i) = k]]

(***************************************************************************)
(* Invocations of the webhook handler                                      *)
(*                                                                         *)
(* Calls to the payment provider read nothing of the three stores, so they *)
(* are taken together with the step that receives the event.  A local the  *)
(* rest of the handler no longer reads is blanked when a step is left.     *)
(***************************************************************************)
NoResponse == [status |-> 0]
NoEvent == [type |-> Null]

\* The parts of the system a specification leaves out stand still in it.
NoInput == [given |-> FALSE]
NoOutput == [done |-> FALSE]
NoPoller == [pc |-> "off"]
NoDeletion == [pc |-> "off"]

\* The events on offer: all of them, or the one being redelivered.
Offered(events) == IF replayed = NoEvent THEN events ELSE events \cap {replayed}

IdleLoc ==
    [type |-> Null, subscriptionId |-> Null, customer |-> Null, status |-> Null,
     period |-> Null, userId |-> Null, userEmail |-> Null, userPassword |-> Null,
     profileEmail |-> Null, calls |-> 0, signed |-> TRUE, outcome |-> "none"]

\* The invocation moves on to its next await.
Goto(h, position, locals) ==
    /\ pc' = [pc EXCEPT ![h] = position]
    /\ loc' = [loc EXCEPT ![h] = locals]
    /\ response' = NoResponse
    /\ acks' = acks

\* The invocation returns a Response; `wrote` is what its own subscription
\* write did: "none", "error", "linked", "null" (user_id: null written),
\* "omitted" (written without a user_id column) or "updated".
Respond(h, status, locals, wrote) ==
    /\ pc' = [pc EXCEPT ![h] = "idle"]
    /\ loc' = [loc EXCEPT ![h] = IdleLoc]
    /\ response' = [status |-> status, type |-> locals.type,
                    subscriptionId |-> locals.subscriptionId,
                    signed |-> locals.signed, userId |-> locals.userId,
                    outcome |-> locals.outcome, calls |-> locals.calls,
                    wrote |-> wrote,
                    snapshot |-> [status |-> locals.status,
                                  period |-> locals.period]]
    /\ acks' = IF replayed # NoEvent /\ status = 200 THEN acks + 1 ELSE acks

\* The password is read last by updateUserById / createUser.
Saving(l) == [l EXCEPT !.userPassword = Null]

Stores == <<identities, nextId, profiles, subscriptions>>
Correlation == <<corrIn, corrOut>>
Checkout == <<checkoutIn, checkoutOut>>
Harness == <<sigIn, sigOut, replayed, Correlation, Checkout, poller, deletion>>

Received(event, signature) ==
    [IdleLoc EXCEPT !.type = event.type,
                    !.signed = SignedByProvider(signature, RawBody(event))]

\* Invocation h stands at `position`, and the response of the step before,
\* if any, has gone out.
At(h, position) == response = NoResponse /\ pc[h] = position

\* A delivery is taken up by an idle invocation; the invocations being
\* alike, it is the first idle one.
Arrives(h) ==
    /\ At(h, "idle")
    /\ delivered < MaxDeliveries
    /\ \A g \in Handlers : pc[g] = "idle" => ~SlotBefore(g, h)

\* 58-62 and 602-611: no stripe-signature header: the throw reaches the
\* outer catch. 70-141: the verification block throws: 400.
Reject(h) ==
    /\ Arrives(h)
    /\ \E event \in ProbeEvents : \E signature \in HeadersFor(event) :
         LET verdict == VerifySignature(signature, RawBody(event))
         IN  /\ verdict # "ok"
             /\ Respond(h, IF verdict = "missing_header" THEN 500 ELSE 400,
                        [Received(event, signature) EXCEPT !.type = Null,
                                                           !.outcome = verdict],
                        "none")
    /\ delivered' = delivered + 1
    /\ UNCHANGED <<Stores, Harness>>

\* A default branch that refuses the types the switch does not name.
UnhandledRefused(h) ==
    /\ Arrives(h)
    /\ \E body \in {RawBody(e) : e \in Offered(OtherEvents)} :
       \E signature \in HeadersFor(JsonParse(body)) :
         /\ VerifySignature(signature, body) = "ok"
         /\ Respond(h, 400, Received(JsonParse(body), signature), "none")
    /\ delivered' = delivered + 1
    /\ UNCHANGED <<Stores, Harness>>

\* 591-601: a verified event of a type the switch does not name.
Unhandled(h) ==
    /\ Arrives(h)
    /\ \E body \in {RawBody(e) : e \in Offered(OtherEvents)} :
       \E signature \in HeadersFor(JsonParse(body)) :
         /\ VerifySignature(signature, body) = "ok"
         /\ Respond(h, 200, Received(JsonParse(body), signature), "none")
    /\ delivered' = delivered + 1
    /\ UNCHANGED <<Stores, Harness>>

\* A guard that looks the email up whether or not a userId came.
AfterRetrieveByEmail(h, l) ==
    IF ~Falsy(l.userEmail)
    THEN Goto(h, "listUsers", l)
    ELSE Goto(h, "upsert_unlinked", Saving([l EXCEPT !.outcome = "no_email"]))

\* 168-186 and 292-293: the userId normalisation, the find-or-create guard
\* and, when the guard is false, the final check.
AfterRetrieve(h, l) ==
    LET userId == IF Falsy(l.userId) THEN Null ELSE l.userId
        n == [l EXCEPT !.userId = userId]
    IN  IF Falsy(userId) /\ ~Falsy(n.userEmail)
        THEN Goto(h, "listUsers", n)
        ELSE IF Falsy(userId)
        THEN Goto(h, "upsert_unlinked", Saving([n EXCEPT !.outcome = "no_email"]))
        ELSE Goto(h, "upsert_linked", Saving([n EXCEPT !.outcome = "trusted"]))

\* 154-186: checkout.session.completed. Without a subscription id the case
\* breaks and the handler answers 200; a throw of
\* stripe.subscriptions.retrieve reaches the outer catch.
CheckoutCompleted(h) ==
    /\ Arrives(h)
    /\ \E body \in {RawBody(e) : e \in Offered(CheckoutEvents)} :
       \E signature \in HeadersFor(JsonParse(body)) :
         LET session == JsonParse(body)
             locals == [Received(session, signature) EXCEPT
                          !.subscriptionId = session.subscription,
                          !.userId = session.userId,
                          !.userEmail = OrElse(session.userEmail, session.customer_email),
                          !.userPassword = session.userPassword,
                          !.profileEmail =
                              OrElse(session.customer_email,
                                     OrElse(session.userEmail, session.customer_email))]
         IN  /\ VerifySignature(signature, body) = "ok"
             /\ IF Falsy(session.subscription)
                THEN Respond(h, 200, [locals EXCEPT !.outcome = "no_subscription"],
                             "none")
                ELSE \E throws \in BOOLEAN :
                       IF throws
                       THEN Respond(h, 500, [locals EXCEPT !.outcome = "provider_error",
                                                           !.calls = 1],
                                    "none")
                       ELSE \E customer \in Customers, subscription \in Snapshots :
                              AfterRetrieve(h, [locals EXCEPT
                                                  !.calls = 1,
                                                  !.customer = customer,
                                                  !.status = subscription.status,
                                                  !.period = subscription.period])
    /\ delivered' = delivered + 1
    /\ UNCHANGED <<Stores, Harness>>

\* 190-225: listUsers and the find; an existing user with a password goes
\* on to updateUserById, a missing user with a password to createUser.
ListUsers(h) ==
    /\ At(h, "listUsers")
    /\ \E findError \in BOOLEAN :
         LET l == loc[h]
             found == IF findError THEN Null
                      ELSE FindUserByEmail(identities, l.userEmail)
         IN  IF ~Falsy(found)
             THEN IF HasPassword(l.userPassword)
                  THEN Goto(h, "updateUserById", [l EXCEPT !.userId = found])
                  ELSE Goto(h, "upsert_linked",
                            Saving([l EXCEPT !.userId = found, !.outcome = "found"]))
             ELSE IF ~HasPassword(l.userPassword)
                  THEN Goto(h, "upsert_no_password",
                            Saving([l EXCEPT !.outcome = "no_password"]))
                  ELSE Goto(h, "createUser", l)
    /\ UNCHANGED <<Stores, Harness, delivered>>

\* updateUserById(userId, { password: userPassword.trim() }) on the store
SetPassword(users, userId, userPassword) ==
    {IF u.id = userId THEN [u EXCEPT !.password = Trim(userPassword)] ELSE u :
        u \in users}

\* 204-215: the error is logged and the linkage proceeds.
UpdateUserById(h) ==
    /\ At(h, "updateUserById")
    /\ \E updateError \in BOOLEAN :
         LET l == loc[h]
             failed == updateError \/ ~\E u \in identities : u.id = l.userId
         IN  /\ identities' = IF failed THEN identities
                              ELSE SetPassword(identities, l.userId, l.userPassword)
             /\ Goto(h, "upsert_linked",
                     Saving([l EXCEPT !.outcome =
                                IF failed THEN "update_failed" ELSE "found"]))
    /\ UNCHANGED <<nextId, profiles, subscriptions, Harness, delivered>>

\* createUser({ email, password: userPassword.trim(), email_confirm: true })
CreateUser(users, id, email, userPassword) ==
    users \cup {[id |-> id, email |-> email, password |-> Trim(userPassword),
                 email_confirm |-> TRUE]}

\* 267-293: createUser; on an error userId stays null and the handler
\* falls through to the unlinked save.
CreateUserStep(h) ==
    /\ At(h, "createUser")
    /\ \E createError \in BOOLEAN :
         LET l == loc[h]
             rejected == CreateUserRejected(identities, l.userEmail,
                                           Trim(l.userPassword))
             conflict == EmailTaken(identities, l.userEmail)
         IN  IF createError \/ rejected
             THEN /\ UNCHANGED <<identities, nextId>>
                  /\ Goto(h, "upsert_unlinked",
                          Saving([l EXCEPT !.outcome = IF conflict THEN "create_conflict"
                                                      ELSE "create_failed"]))
             ELSE /\ identities' = CreateUser(identities, NewUserId(nextId),
                                              l.userEmail, l.userPassword)
                  /\ nextId' = nextId + 1
                  /\ Goto(h, "upsert_linked",
                          Saving([l EXCEPT !.userId = NewUserId(nextId),
                                           !.outcome = "created"]))
    /\ UNCHANGED <<profiles, subscriptions, Harness, delivered>>

\* The columns both handlers write from the provider's subscription object.
SubscriptionColumns(l) ==
    [stripe_subscription_id |-> l.subscriptionId,
     stripe_customer_id |-> l.customer,
     status |-> l.status,
     current_period_start |-> ToISOString(l.period[1]),
     current_period_end |-> ToISOString(l.period[2])]

\* 230-236 and 299-305: the payload carries no user_id column.
UnlinkedPayload(l) == SubscriptionColumns(l)

\* 334-341 and 510-517: user_id: userId (null included).
LinkedPayload(l) ==
    [user_id |-> l.userId] @@ SubscriptionColumns(l)

\* 357-362
CheckoutProfilePayload(l) ==
    [id |-> l.userId,
     email |-> l.profileEmail,
     stripe_customer_id |-> l.customer,
     subscription_status |-> ProfileStatus(l.status)]

\* 533-538
CreatedProfilePayload(l) ==
    [id |-> l.userId,
     email |-> l.userEmail,
     stripe_customer_id |-> l.customer,
     subscription_status |-> ProfileStatus(l.status)]

\* 230-255: the save without user_id when no password came; its error is
\* logged and the handler answers 200.
UpsertNoPassword(h) ==
    /\ At(h, "upsert_no_password")
    /\ \E subError \in BOOLEAN :
         /\ subscriptions' = IF subError THEN subscriptions
                              ELSE Upsert(subscriptions, UnlinkedPayload(loc[h]),
                                          "stripe_subscription_id", NewSubscriptionRow)
         /\ Respond(h, 200, loc[h], IF subError THEN "error" ELSE "omitted")
    /\ UNCHANGED <<identities, nextId, profiles, Harness, delivered>>

\* 293-327: the save without user_id when no userId was determined.
UpsertUnlinked(h) ==
    /\ At(h, "upsert_unlinked")
    /\ \E subError \in BOOLEAN :
         /\ subscriptions' = IF subError THEN subscriptions
                              ELSE Upsert(subscriptions, UnlinkedPayload(loc[h]),
                                          "stripe_subscription_id", NewSubscriptionRow)
         /\ Respond(h, 200, loc[h], IF subError THEN "error" ELSE "omitted")
    /\ UNCHANGED <<identities, nextId, profiles, Harness, delivered>>

\* 332-350: the linked save; its error is thrown to the outer catch.
UpsertLinked(h) ==
    /\ At(h, "upsert_linked")
    /\ \E subError \in BOOLEAN :
         IF subError
         THEN /\ UNCHANGED subscriptions
              /\ Respond(h, 500, loc[h], "error")
         ELSE /\ subscriptions' = Upsert(subscriptions, LinkedPayload(loc[h]),
                                         "stripe_subscription_id", NewSubscriptionRow)
              /\ Goto(h, "upsert_profile", loc[h])
    /\ UNCHANGED <<identities, nextId, profiles, Harness, delivered>>

\* 355-377 and 595-601: the profile upsert, whose error is only logged.
UpsertProfile(h) ==
    /\ At(h, "upsert_profile")
    /\ \E profileError \in BOOLEAN :
         /\ profiles' = IF profileError THEN profiles
                         ELSE Upsert(profiles, CheckoutProfilePayload(loc[h]),
                                     "id", NewProfileRow)
         /\ Respond(h, 200, loc[h], "linked")
    /\ UNCHANGED <<identities, nextId, subscriptions, Harness, delivered>>

(***************************************************************************)
(* customer.subscription.created (379-552)                                 *)
(***************************************************************************)
\* 422-433: email, password and userId are taken from the first of the
\* sessions kept, if there is one.
TakeFromSession(l, recentSessions) ==
    IF Len(recentSessions) = 0 THEN l
    ELSE LET session == recentSessions[1]
         IN  [l EXCEPT
                !.userEmail = OrElse(session.userEmail,
                                     OrElse(session.customer_email, @)),
                !.userPassword = OrElse(session.userPassword, Null),
                !.userId = OrElse(session.userId, Null)]

\* 454 and 484: where the handler goes with what it has.
AfterSessions(h, l, recentSessions) ==
    LET n == TakeFromSession(l, recentSessions)
    IN  IF Falsy(n.userId)
        THEN Goto(h, "listUsers_created", n)
        ELSE Goto(h, "upsert_created", Saving([n EXCEPT !.outcome = "trusted"]))

\* 379-454: the customer lookup (a throw or a deleted customer leaves
\* userEmail null, and then nothing but the save is left to do) and the
\* session lookup (a throw leaves the customer's email alone).
SubscriptionCreated(h) ==
    /\ Arrives(h)
    /\ \E body \in {RawBody(e) : e \in Offered(CreatedEvents)} :
       \E signature \in HeadersFor(JsonParse(body)) :
         LET subscription == JsonParse(body)
             locals == [Received(subscription, signature) EXCEPT
                          !.subscriptionId = subscription.id,
                          !.customer = subscription.customer,
                          !.status = subscription.status,
                          !.period = subscription.period]
         IN  /\ VerifySignature(signature, body) = "ok"
             /\ \E email \in Emails \cup {Null, "throws", "deleted"} :
                  LET userEmail == IF email \in {"throws", "deleted"} THEN Null
                                   ELSE OrElse(email, Null)
                  IN  IF Falsy(userEmail)
                      THEN Goto(h, "upsert_created",
                                [locals EXCEPT !.outcome = "no_email", !.calls = 1])
                      ELSE \E throws \in BOOLEAN :
                             IF throws
                             THEN AfterSessions(h,
                                      [locals EXCEPT !.userEmail = userEmail, !.calls = 2],
                                      <<>>)
                             ELSE \E data \in SessionLists, now \in Times :
                                    AfterSessions(h,
                                        [locals EXCEPT !.userEmail = userEmail,
                                                       !.calls = 2],
                                        RecentSessions(data, subscription.id, now))
    /\ delivered' = delivered + 1
    /\ UNCHANGED <<Stores, Harness>>

\* 455-484: listUsers and the find.
ListUsersCreated(h) ==
    /\ At(h, "listUsers_created")
    /\ \E findError \in BOOLEAN :
         LET l == loc[h]
             found == IF findError THEN Null
                      ELSE FindUserByEmail(identities, l.userEmail)
         IN  IF ~Falsy(found)
             THEN IF HasPassword(l.userPassword)
                  THEN Goto(h, "updateUserById_created", [l EXCEPT !.userId = found])
                  ELSE Goto(h, "upsert_created",
                            Saving([l EXCEPT !.userId = found, !.outcome = "found"]))
             ELSE IF HasPassword(l.userPassword)
                  THEN Goto(h, "createUser_created", l)
                  ELSE Goto(h, "upsert_created",
                            Saving([l EXCEPT !.outcome = "no_password"]))
    /\ UNCHANGED <<Stores, Harness, delivered>>

\* 468-478
UpdateUserByIdCreated(h) ==
    /\ At(h, "updateUserById_created")
    /\ \E updateError \in BOOLEAN :
         LET l == loc[h]
             failed == updateError \/ ~\E u \in identities : u.id = l.userId
         IN  /\ identities' = IF failed THEN identities
                              ELSE SetPassword(identities, l.userId, l.userPassword)
             /\ Goto(h, "upsert_created",
                     Saving([l EXCEPT !.outcome =
                                IF failed THEN "update_failed" ELSE "found"]))
    /\ UNCHANGED <<nextId, profiles, subscriptions, Harness, delivered>>

\* 487-504
CreateUserCreated(h) ==
    /\ At(h, "createUser_created")
    /\ \E createError \in BOOLEAN :
         LET l == loc[h]
             rejected == CreateUserRejected(identities, l.userEmail,
                                           Trim(l.userPassword))
             conflict == EmailTaken(identities, l.userEmail)
         IN  IF createError \/ rejected
             THEN /\ UNCHANGED <<identities, nextId>>
                  /\ Goto(h, "upsert_created",
                          Saving([l EXCEPT !.outcome = IF conflict THEN "create_conflict"
                                                      ELSE "create_failed"]))
             ELSE /\ identities' = CreateUser(identities, NewUserId(nextId),
                                              l.userEmail, l.userPassword)
                  /\ nextId' = nextId + 1
                  /\ Goto(h, "upsert_created",
                          Saving([l EXCEPT !.userId = NewUserId(nextId),
                                           !.outcome = "created"]))
    /\ UNCHANGED <<profiles, subscriptions, Harness, delivered>>

\* 508-530, 550-551, 595-601: the save with user_id: userId; its error is
\* thrown; without a userId the handler answers right after the save.
UpsertCreated(h) ==
    /\ At(h, "upsert_created")
    /\ \E subError \in BOOLEAN :
         IF subError
         THEN /\ UNCHANGED subscriptions
              /\ Respond(h, 500, loc[h], "error")
         ELSE /\ subscriptions' = Upsert(subscriptions, LinkedPayload(loc[h]),
                                         "stripe_subscription_id", NewSubscriptionRow)
              /\ IF Falsy(loc[h].userId)
                 THEN Respond(h, 200, loc[h], "null")
                 ELSE Goto(h, "upsert_profile_created", loc[h])
    /\ UNCHANGED <<identities, nextId, profiles, Harness, delivered>>

\* 531-551, 595-601
UpsertProfileCreated(h) ==
    /\ At(h, "upsert_profile_created")
    /\ \E profileError \in BOOLEAN :
         /\ profiles' = IF profileError THEN profiles
                         ELSE Upsert(profiles, CreatedProfilePayload(loc[h]),
                                     "id", NewProfileRow)
         /\ Respond(h, 200, loc[h], "linked")
    /\ UNCHANGED <<identities, nextId, subscriptions, Harness, delivered>>

(***************************************************************************)
(* customer.subscription.updated / deleted (554-589)                       *)
(***************************************************************************)
SubscriptionUpdatedOrDeleted(h) ==
    /\ Arrives(h)
    /\ \E body \in {RawBody(e) : e \in Offered(LifecycleEvents)} :
       \E signature \in HeadersFor(JsonParse(body)) :
         LET subscription == JsonParse(body)
             locals == [Received(subscription, signature) EXCEPT
                          !.subscriptionId = subscription.id,
                          !.customer = subscription.customer,
                          !.status = subscription.status,
                          !.period = subscription.period]
         IN  /\ VerifySignature(signature, body) = "ok"
             /\ Goto(h, "update_subscription", locals)
    /\ delivered' = delivered + 1
    /\ UNCHANGED <<Stores, Harness>>

\* 563-566
LifecyclePayload(l) ==
    [status |-> l.status,
     current_period_start |-> ToISOString(l.period[1]),
     current_period_end |-> ToISOString(l.period[2])]

\* 561-573: update ... eq('stripe_subscription_id', subscription.id)
UpdateSubscription(h) ==
    /\ At(h, "update_subscription")
    /\ \E subError \in BOOLEAN :
         IF subError
         THEN /\ UNCHANGED subscriptions
              /\ Respond(h, 500, loc[h], "error")
         ELSE /\ subscriptions' = UpdateWhere(subscriptions, LifecyclePayload(loc[h]),
                                              "stripe_subscription_id",
                                              loc[h].subscriptionId)
              /\ Goto(h, "update_profile", loc[h])
    /\ UNCHANGED <<identities, nextId, profiles, Harness, delivered>>

\* 576-601: update user_profiles ... eq('stripe_customer_id', customer)
UpdateProfile(h) ==
    /\ At(h, "update_profile")
    /\ \E profileError \in BOOLEAN :
         /\ profiles' = IF profileError THEN profiles
                         ELSE UpdateWhere(profiles,
                                  [subscription_status |-> ProfileStatus(loc[h].status)],
                                  "stripe_customer_id", loc[h].customer)
         /\ Respond(h, 200, loc[h], "updated")
    /\ UNCHANGED <<identities, nextId, subscriptions, Harness, delivered>>

(***************************************************************************)
(* Specification of the concurrent webhook handler                         *)
(***************************************************************************)
Init ==
    /\ identities = {}
    /\ nextId = 1
    /\ profiles = <<>>
    /\ subscriptions = <<>>
    /\ pc = [h \in Handlers |-> "idle"]
    /\ loc = [h \in Handlers |-> IdleLoc]
    /\ delivered = 0
    /\ response = NoResponse
    /\ sigIn = <<>>
    /\ sigOut = Null
    /\ replayed = NoEvent
    /\ acks = 0
    /\ corrIn = NoInput
    /\ corrOut = NoOutput
    /\ checkoutIn = NoInput
    /\ checkoutOut = NoOutput
    /\ poller = NoPoller
    /\ deletion = NoDeletion

\* The response of the step just taken has gone out.
Sent ==
    /\ response # NoResponse
    /\ response' = NoResponse
    /\ UNCHANGED <<Stores, pc, loc, delivered, Harness, acks>>

Step(h) ==
        \/ Reject(h)
        \/ Unhandled(h)
        \/ CheckoutCompleted(h)
        \/ ListUsers(h)
        \/ UpdateUserById(h)
        \/ CreateUserStep(h)
        \/ UpsertNoPassword(h)
        \/ UpsertUnlinked(h)
        \/ UpsertLinked(h)
        \/ UpsertProfile(h)
        \/ SubscriptionCreated(h)
        \/ ListUsersCreated(h)
        \/ UpdateUserByIdCreated(h)
        \/ CreateUserCreated(h)
        \/ UpsertCreated(h)
        \/ UpsertProfileCreated(h)
        \/ SubscriptionUpdatedOrDeleted(h)
        \/ UpdateSubscription(h)
        \/ UpdateProfile(h)

Next == (\E h \in Handlers : Step(h)) \/ Sent

Spec == Init /\ [][Next]_vars

(***************************************************************************)
(* Deliveries for a returning customer: the identity of the email is there *)
(* from an earlier checkout, with the credential chosen then.              *)
(***************************************************************************)
ReturningCustomer ==
    [id |-> NewUserId(1), email |-> "a@x.com", password |-> "hunter22",
     email_confirm |-> TRUE]

InitReturning ==
    /\ identities = {ReturningCustomer}
    /\ nextId = 2
    /\ profiles = <<>>
    /\ subscriptions = <<>>
    /\ pc = [h \in Handlers |-> "idle"]
    /\ loc = [h \in Handlers |-> IdleLoc]
    /\ delivered = 0
    /\ response = NoResponse
    /\ sigIn = <<>>
    /\ sigOut = Null
    /\ replayed = NoEvent
    /\ acks = 0
    /\ corrIn = NoInput
    /\ corrOut = NoOutput
    /\ checkoutIn = NoInput
    /\ checkoutOut = NoOutput
    /\ poller = NoPoller
    /\ deletion = NoDeletion

SpecReturning == InitReturning /\ [][Next]_vars

(***************************************************************************)
(* Redelivery of one subscription event                                    *)
(***************************************************************************)
InitReplay ==
    /\ identities = {}
    /\ nextId = 1
    /\ profiles = <<>>
    /\ subscriptions = <<>>
    /\ pc = [h \in Handlers |-> "idle"]
    /\ loc = [h \in Handlers |-> IdleLoc]
    /\ delivered = 0
    /\ response = NoResponse
    /\ sigIn = <<>>
    /\ sigOut = Null
    /\ replayed \in CreatedEvents \cup LifecycleEvents
    /\ acks = 0
    /\ corrIn = NoInput
    /\ corrOut = NoOutput
    /\ checkoutIn = NoInput
    /\ checkoutOut = NoOutput
    /\ poller = NoPoller
    /\ deletion = NoDeletion

NextReplay ==
    \/ \E h \in Handlers :
        \/ SubscriptionCreated(h)
        \/ ListUsersCreated(h)
        \/ UpdateUserByIdCreated(h)
        \/ CreateUserCreated(h)
        \/ UpsertCreated(h)
        \/ UpsertProfileCreated(h)
        \/ SubscriptionUpdatedOrDeleted(h)
        \/ UpdateSubscription(h)
        \/ UpdateProfile(h)
    \/ Sent

SpecReplay == InitReplay /\ [][NextReplay]_vars

(***************************************************************************)
(* The signature verification on its own                                   *)
(***************************************************************************)
OtherTimestamp == "1700000300"

SignedBodies == {RawBody(e) : e \in ProbeEvents}

\* The elements a header is put together from: timestamps (one empty, one
\* without '='), v1 candidates, a v0 candidate.
HeaderElements ==
    {<<"t", TimestampNow>>, <<"t", OtherTimestamp>>, <<"t", "">>, <<"t">>,
     <<"v1">>, <<"v1", <<>>>>,
     <<"v1", HmacSha256Hex("whsec_other",
                           SignedPayload(TimestampNow, RawBody([type |-> "invoice.paid"])))>>}
        \cup {<<v, HmacSha256Hex(STRIPE_WEBHOOK_SECRET, SignedPayload(TimestampNow, b))>> :
                 v \in {"v0", "v1"}, b \in SignedBodies}
        \cup {<<"v1", HmacSha256Hex(STRIPE_WEBHOOK_SECRET,
                                    SignedPayload(OtherTimestamp, b))>> :
                 b \in SignedBodies}

Headers == UNION {[1..n -> HeaderElements] : n \in 0..MaxElements}

InitVerify ==
    /\ identities = {}
    /\ nextId = 1
    /\ profiles = <<>>
    /\ subscriptions = <<>>
    /\ pc = [h \in Handlers |-> "idle"]
    /\ loc = [h \in Handlers |-> IdleLoc]
    /\ delivered = 0
    /\ response = NoResponse
    /\ sigIn \in Headers \X SignedBodies
    /\ sigOut = Null
    /\ replayed = NoEvent
    /\ acks = 0
    /\ corrIn = NoInput
    /\ corrOut = NoOutput
    /\ checkoutIn = NoInput
    /\ checkoutOut = NoOutput
    /\ poller = NoPoller
    /\ deletion = NoDeletion

\* 58-141 on the delivery under test
Verify ==
    /\ sigOut = Null
    /\ sigOut' = VerifySignature(sigIn[1], sigIn[2])
    /\ UNCHANGED <<Stores, pc, loc, delivered, response, sigIn, replayed, acks,
                   Correlation, Checkout, poller, deletion>>

SpecVerify == InitVerify /\ [][Verify]_vars

(***************************************************************************)
(* The correlation of a customer.subscription.created event on its own     *)
(* (index.ts 387-449): the customer's email is known, the provider has     *)
(* returned a list of checkout sessions for it.                            *)
(***************************************************************************)
MaxSessions == 2

\* Sessions of the customer: created outside the last hour (5000) or inside
\* it (9000, 9500), for this subscription or another.
ListedSessions ==
    {[subscription |-> s, created |-> c, customer_email |-> e, userId |-> u,
      userEmail |-> m, userPassword |-> p] :
        s \in Subs, c \in {5000, 9000, 9500}, e \in Emails,
        u \in {"", PreUser}, m \in {Null, "b@x.com"}, p \in {Null, "abcdef"}}

InitCorrelate ==
    /\ identities = {}
    /\ nextId = 1
    /\ profiles = <<>>
    /\ subscriptions = <<>>
    /\ pc = [h \in Handlers |-> "idle"]
    /\ loc = [h \in Handlers |-> IdleLoc]
    /\ delivered = 0
    /\ response = NoResponse
    /\ sigIn = <<>>
    /\ sigOut = Null
    /\ replayed = NoEvent
    /\ acks = 0
    /\ corrIn \in [given : {TRUE},
                   email : Emails,
                   subscriptionId : Subs,
                   now : Times,
                   data : UNION {[1..n -> ListedSessions] : n \in 0..MaxSessions}]
    /\ corrOut = NoOutput
    /\ checkoutIn = NoInput
    /\ checkoutOut = NoOutput
    /\ poller = NoPoller
    /\ deletion = NoDeletion

\* 387-389 and 397: the locals before the session lookup
BeforeSessions(email) ==
    [userEmail |-> email, userPassword |-> Null, userId |-> Null]

\* 417-433 on the list under test
Correlate ==
    /\ corrIn.given
    /\ ~corrOut.done
    /\ corrOut' = [done |-> TRUE]
                     @@ TakeFromSession(BeforeSessions(corrIn.email),
                                        RecentSessions(corrIn.data,
                                                       corrIn.subscriptionId,
                                                       corrIn.now))
    /\ UNCHANGED <<Stores, pc, loc, delivered, response, sigIn, sigOut, replayed,
                   acks, corrIn, Checkout, poller, deletion>>

SpecCorrelate == InitCorrelate /\ [][Correlate]_vars

(***************************************************************************)
(* create-checkout-session (create-checkout-session/index.ts)              *)
(***************************************************************************)
\* The JSON bodies a request may carry: text that does not parse, values
\* that are no object, and objects whose fields are absent (Null), empty or
\* given.
RequestBodies ==
    {[kind |-> k] : k \in {"malformed", "null", "number"}}
        \cup [kind : {"object"},
              priceId : {Null, "", "price_1"},
              userId : {Null, "", PreUser},
              userEmail : {Null, ""} \cup Emails,
              userPassword : {Null, "", "  ", "abcdef", " abcdef "}]

CheckoutRequests ==
    [given : {TRUE},
     method : {"OPTIONS", "POST"},
     STRIPE_SECRET_KEY : {Null, "sk_test"},
     body : RequestBodies]

\* A session stamped without the caller's userId.
NewCheckoutSessionWithoutUserId(priceId, userId, userEmail, userPassword) ==
    [customer_email |-> userEmail,
     price |-> priceId,
     mode |-> "subscription",
     userId |-> "",
     userEmail |-> userEmail,
     userPassword |-> userPassword]

\* 84-101: the session stripe.checkout.sessions.create is asked for
NewCheckoutSession(priceId, userId, userEmail, userPassword) ==
    [customer_email |-> userEmail,
     price |-> priceId,
     mode |-> "subscription",
     userId |-> OrElse(userId, ""),
     userEmail |-> userEmail,
     userPassword |-> userPassword]

\* 115-137: the catch answers every throw alike
CheckoutFailure(message) ==
    [done |-> TRUE, status |-> 500, body |-> [error |-> message], sessions |-> <<>>]

\* 10-138: the handler on a request; createThrows is the provider's call
\* failing.
CreateCheckoutSession(req, createThrows) ==
    IF req.method = "OPTIONS"
    THEN [done |-> TRUE, status |-> 200, body |-> "ok", sessions |-> <<>>]
    ELSE IF Falsy(req.STRIPE_SECRET_KEY)
    THEN CheckoutFailure("STRIPE_SECRET_KEY is not set")
    ELSE IF req.body.kind = "malformed"
    THEN CheckoutFailure("Invalid request body format")
    ELSE IF req.body.kind # "object"
    THEN CheckoutFailure("Request body is invalid")
    ELSE IF Falsy(req.body.priceId)
    THEN CheckoutFailure("Missing or empty priceId field")
    ELSE IF Falsy(req.body.userEmail)
    THEN CheckoutFailure("Missing or empty userEmail field")
    ELSE IF Falsy(req.body.userPassword)
    THEN CheckoutFailure("Missing or empty userPassword field")
    ELSE IF createThrows
    THEN CheckoutFailure("provider error")
    ELSE [done |-> TRUE, status |-> 200, body |-> [id |-> "cs_1"],
          sessions |-> <<NewCheckoutSession(req.body.priceId, req.body.userId,
                                            req.body.userEmail,
                                            req.body.userPassword)>>]

InitCheckout ==
    /\ identities = {}
    /\ nextId = 1
    /\ profiles = <<>>
    /\ subscriptions = <<>>
    /\ pc = [h \in Handlers |-> "idle"]
    /\ loc = [h \in Handlers |-> IdleLoc]
    /\ delivered = 0
    /\ response = NoResponse
    /\ sigIn = <<>>
    /\ sigOut = Null
    /\ replayed = NoEvent
    /\ acks = 0
    /\ corrIn = NoInput
    /\ corrOut = NoOutput
    /\ checkoutIn \in CheckoutRequests
    /\ checkoutOut = NoOutput
    /\ poller = NoPoller
    /\ deletion = NoDeletion

ServeCheckout ==
    /\ checkoutIn.given
    /\ ~checkoutOut.done
    /\ \E createThrows \in BOOLEAN :
          checkoutOut' = CreateCheckoutSession(checkoutIn, createThrows)
    /\ UNCHANGED <<Stores, pc, loc, delivered, response, sigIn, sigOut, replayed,
                   acks, Correlation, checkoutIn, poller, deletion>>

SpecCheckout == InitCheckout /\ [][ServeCheckout]_vars

(***************************************************************************)
(* The page after the redirect back from checkout (part_001 739-817),      *)
(* running beside the webhook deliveries of the checkout it started.       *)
(* Every await is one step; the delays of the timers are left out, a timer *)
(* that is set fires at some later step.                                   *)
(***************************************************************************)
maxRetries == 10

\* auth.signInWithPassword against the identity store: the user's id, or
\* Null for invalid credentials.
SignInWithPassword(users, email, password) ==
    IF \E u \in users : u.email = email /\ u.password = password
    THEN (CHOOSE u \in users : u.email = email /\ u.password = password).id
    ELSE Null

\* .maybeSingle(): the row when exactly one matches, else no data
MaybeSingle(rows, matches) ==
    IF Cardinality(matches) = 1 THEN rows[CHOOSE i \in matches : TRUE] ELSE NoEvent

\* 260-269: the active subscription of the user, if the query yields one
ActiveSubscriptionOf(userId) ==
    MaybeSingle(subscriptions,
                {i \in 1..Len(subscriptions) :
                    /\ subscriptions[i].user_id = userId
                    /\ subscriptions[i].status = "active"})

\* 272-280: the profile of the user, if the query yields one
ProfileOf(userId) ==
    MaybeSingle(profiles, {i \in 1..Len(profiles) : profiles[i].id = userId})

\* What an awaited call of the page to Supabase may do: answer by the
\* stores, return an error of its own, or throw; with the service up and
\* the library loaded it answers.
CallOutcomes(p) ==
    IF p.service = "up" THEN {"answers"} ELSE {"answers", "error", "throws"}

\* A failed attempt that shows its message at once and schedules nothing.
GiveUp(p, message) ==
    [p EXCEPT !.shown = message, !.pc = "done", !.user = Null]

\* 779-784, 789-802, 806-811: another attempt is scheduled while retries
\* remain, else the message of the branch is shown.
Retry(p, message) ==
    IF p.retries < maxRetries
    THEN [p EXCEPT !.retries = @ + 1, !.pc = "timer", !.user = Null]
    ELSE [p EXCEPT !.shown = message, !.pc = "done", !.user = Null]

\* 772-777: removeItem, updateUI, return
Succeed(p) == [p EXCEPT !.shown = "success", !.pending = FALSE, !.pc = "done"]

PollerSteps(p) ==
    /\ response = NoResponse
    /\ poller' = p
    /\ UNCHANGED <<Stores, pc, loc, delivered, response, sigIn, sigOut, replayed,
                   acks, Correlation, Checkout, deletion>>

\* 739-757 and 816: without the stored credentials the page says so and
\* stops; with them the first attempt is scheduled.
HandleCheckoutSuccess ==
    /\ poller.pc = "start"
    /\ PollerSteps(IF poller.pending
                   THEN [poller EXCEPT !.shown = "processing", !.pc = "timer"]
                   ELSE [poller EXCEPT !.shown = "data_not_found", !.pc = "done"])

\* 759-771, 786-812: the timer fires and signInWithPassword is awaited; it
\* answers by the identity store, returns an error of its own, or throws
\* (supabaseClient is null when the library did not load).
AttemptAutoLogin ==
    /\ poller.pc = "timer"
    /\ \E outcome \in CallOutcomes(poller) :
         LET p == [poller EXCEPT !.attempts = @ + 1]
             user == SignInWithPassword(identities, p.email, p.password)
         IN  PollerSteps(
                 IF outcome = "throws" THEN Retry(p, "error")
                 ELSE IF outcome = "error" \/ user = Null
                 THEN Retry(p, "taking_longer")
                 ELSE [p EXCEPT !.user = user, !.pc = "checkSubscription"])

\* 254-270, 284-287: the query on subscriptions; a throw is caught and
\* counts as not subscribed.
CheckSubscription ==
    /\ poller.pc = "checkSubscription"
    /\ \E outcome \in CallOutcomes(poller) :
         LET subscriptionData == IF outcome = "answers"
                                 THEN ActiveSubscriptionOf(poller.user)
                                 ELSE NoEvent
         IN  PollerSteps(
                 IF outcome = "throws" THEN Retry(poller, "being_processed")
                 ELSE IF subscriptionData # NoEvent
                 THEN Succeed(poller)
                 ELSE [poller EXCEPT !.pc = "checkProfile"])

\* 272-287, 772-785: the query on user_profiles and what follows.
CheckProfile ==
    /\ poller.pc = "checkProfile"
    /\ \E outcome \in CallOutcomes(poller) :
         LET profile == IF outcome = "answers" THEN ProfileOf(poller.user)
                        ELSE NoEvent
         IN  PollerSteps(
                 IF profile # NoEvent /\ profile.subscription_status = "active"
                 THEN Succeed(poller)
                 ELSE Retry(poller, "being_processed"))

\* The checkout the page started: its session carries the email and the
\* password the page kept, and no userId.
PollerEvents ==
    {e \in CheckoutEvents :
        /\ e.subscription = "sub_1"
        /\ e.customer_email \in Emails
        /\ e.userEmail = e.customer_email
        /\ e.userId = ""
        /\ e.userPassword \in {"abcdef", " abcdef "}}

InitPoller ==
    /\ identities = {}
    /\ nextId = 1
    /\ profiles = <<>>
    /\ subscriptions = <<>>
    /\ pc = [h \in Handlers |-> "idle"]
    /\ loc = [h \in Handlers |-> IdleLoc]
    /\ delivered = 0
    /\ response = NoResponse
    /\ sigIn = <<>>
    /\ sigOut = Null
    /\ replayed \in PollerEvents
    /\ acks = 0
    /\ corrIn = NoInput
    /\ corrOut = NoOutput
    /\ checkoutIn = NoInput
    /\ checkoutOut = NoOutput
    /\ \E pending \in BOOLEAN, service \in {"up", "failing"} :
          poller = [pc |-> "start", retries |-> 0, attempts |-> 0, user |-> Null,
                    shown |-> "none", pending |-> pending, service |-> service,
                    email |-> replayed.userEmail,
                    password |-> replayed.userPassword]
    /\ deletion = NoDeletion

NextPoller ==
    \/ \E h \in Handlers :
        \/ CheckoutCompleted(h)
        \/ ListUsers(h)
        \/ UpdateUserById(h)
        \/ CreateUserStep(h)
        \/ UpsertUnlinked(h)
        \/ UpsertLinked(h)
        \/ UpsertProfile(h)
    \/ Sent
    \/ HandleCheckoutSuccess
    \/ AttemptAutoLogin
    \/ CheckSubscription
    \/ CheckProfile

SpecPoller == InitPoller /\ [][NextPoller]_vars

\* The page's timers fire and its awaits return (setTimeout at 782, 796,
\* 808 and 816; the awaits at 762, 260 and 272); a response that is being
\* returned goes out.  Nothing obliges the provider to deliver.
SpecPollerFair ==
    /\ SpecPoller
    /\ WF_vars(HandleCheckoutSuccess)
    /\ WF_vars(AttemptAutoLogin)
    /\ WF_vars(CheckSubscription)
    /\ WF_vars(CheckProfile)
    /\ WF_vars(Sent)

(***************************************************************************)
(* delete-account (delete-account/index.ts), on its own: one request       *)
(* against stores the webhook has filled.  Every await is one step.  The   *)
(* tables are written as the code writes them: nothing is removed from     *)
(* them but by the handler's own delete calls.                             *)
(***************************************************************************)
\* The identities the stores may hold, and their access tokens.
Accounts ==
    {[id |-> "user_1", email |-> "a@x.com", password |-> "abcdef",
      email_confirm |-> TRUE],
     [id |-> "user_2", email |-> "b@x.com", password |-> "abcdef",
      email_confirm |-> TRUE]}

AccessToken(userId) == "jwt_" \o userId

\* The authorization headers of a request, in pieces: none (or empty), a
\* bearer credential, a bare token, the scheme alone.
AuthHeaders ==
    {<<>>, <<"Bearer ">>}
        \cup {<<"Bearer ", t>> : t \in {AccessToken("user_1"), "jwt_forged"}}
        \cup {<<t>> : t \in {AccessToken("user_1"), "jwt_forged"}}

\* 52: authHeader.replace('Bearer ', ''): the first occurrence is removed
Replace(header, piece) ==
    LET at == {i \in 1..Len(header) : header[i] = piece}
    IN  IF at = {} THEN header
        ELSE LET first == CHOOSE i \in at : \A j \in at : i <= j
             IN  [k \in 1..(Len(header) - 1) |->
                     IF k < first THEN header[k] ELSE header[k + 1]]

NoUser == [id |-> Null, email |-> Null]

\* A lookup that takes whatever is presented for the token of the first
\* identity there is.
GetUserUnverified(users, token) ==
    IF users = {} THEN NoUser
    ELSE CHOOSE u \in users : TRUE

\* 53: supabase.auth.getUser(token): the identity whose token it is
GetUser(users, token) ==
    IF \E u \in users : token = <<AccessToken(u.id)>>
    THEN CHOOSE u \in users : token = <<AccessToken(u.id)>>
    ELSE NoUser

\* 72-76: .eq('user_id', userId).single(): the row when exactly one
\* matches; with none or several, no data (and the error PGRST116)
Single(rows, userId) ==
    LET matches == {i \in 1..Len(rows) : rows[i].user_id = userId}
    IN  IF Cardinality(matches) = 1 THEN rows[CHOOSE i \in matches : TRUE]
        ELSE NoEvent

\* A delete that removes nothing.
DeleteNothing(rows, key, value) == rows

\* delete().eq(key, value)
DeleteWhere(rows, key, value) ==
    SelectSeq(rows, LAMBDA row : row[key] # value)

\* An answer that lets the error of deleteUser pass, as the errors of the
\* steps before it.
DeleteUserStatusLogged(deleteUserError) ==
    IF deleteUserError THEN 200 ELSE 200

\* 129-154: the status after auth.admin.deleteUser
DeleteUserStatus(deleteUserError) ==
    IF deleteUserError THEN 500 ELSE 200

\* One thing the handler asked a collaborator to do, and whether it was done.
Did(op, target, ok) == [op |-> op, target |-> target, ok |-> ok]

DeleteRequests ==
    [pc : {"request"}, method : {"OPTIONS", "POST"}, configured : BOOLEAN,
     authHeader : AuthHeaders, userId : {Null}, userEmail : {Null},
     subscriptionData : {NoEvent}, linked : {{}}, ops : {<<>>}, status : {0}]

\* The handler returns a Response.
Answer(d, status) == [d EXCEPT !.pc = "done", !.status = status]

Others == <<pc, loc, delivered, response, sigIn, sigOut, replayed, acks,
            Correlation, Checkout, poller>>

\* 10-69: preflight, the header, the environment, getUser
Authenticate ==
    /\ deletion.pc = "request"
    /\ \E authError \in BOOLEAN :
         LET d == deletion
             token == Replace(d.authHeader, "Bearer ")
             user == IF authError THEN NoUser ELSE GetUser(identities, token)
         IN  deletion' =
                 IF d.method = "OPTIONS" THEN Answer(d, 200)
                 ELSE IF Len(d.authHeader) = 0 THEN Answer(d, 401)
                 ELSE IF ~d.configured THEN Answer(d, 500)
                 ELSE IF user = NoUser THEN Answer(d, 401)
                 ELSE [d EXCEPT !.pc = "select", !.userId = user.id,
                                !.userEmail = user.email]
    /\ UNCHANGED <<Stores, Others>>

\* 74: .select('stripe_subscription_id, stripe_customer_id')
Select(row, columns) ==
    IF row = NoEvent THEN NoEvent ELSE [c \in columns |-> row[c]]

\* The subscription ids of the rows linked to the user.
LinkedTo(rows, userId) ==
    {rows[i].stripe_subscription_id :
        i \in {j \in 1..Len(rows) : rows[j].user_id = userId}}

\* 72-96: the subscription lookup and where the handler goes with it;
\* `linked` keeps what the table held for the user at the lookup.
SelectSubscription ==
    /\ deletion.pc = "select"
    /\ \E subError \in BOOLEAN :
         LET subscriptionData ==
                 IF subError THEN NoEvent
                 ELSE Select(Single(subscriptions, deletion.userId),
                             {"stripe_subscription_id", "stripe_customer_id"})
         IN  deletion' =
                 [deletion EXCEPT
                    !.subscriptionData = subscriptionData,
                    !.linked = LinkedTo(subscriptions, deletion.userId),
                    !.ops = Append(@, Did("select", deletion.userId, ~subError)),
                    !.pc = IF subscriptionData = NoEvent THEN "deleteProfile"
                           ELSE IF Falsy(subscriptionData.stripe_subscription_id)
                           THEN "deleteSubscription"
                           ELSE "cancel"]
    /\ UNCHANGED <<Stores, Others>>

\* 84-93: stripe.subscriptions.cancel; a throw is caught and logged
CancelSubscription ==
    /\ deletion.pc = "cancel"
    /\ \E stripeError \in BOOLEAN :
         deletion' =
             [deletion EXCEPT
                !.ops = Append(@, Did("cancel",
                                      deletion.subscriptionData.stripe_subscription_id,
                                      ~stripeError)),
                !.pc = "deleteSubscription"]
    /\ UNCHANGED <<Stores, Others>>

\* 99-111: delete from subscriptions where user_id = userId
DeleteSubscriptionRecord ==
    /\ deletion.pc = "deleteSubscription"
    /\ \E deleteSubError \in BOOLEAN :
         /\ subscriptions' = IF deleteSubError THEN subscriptions
                              ELSE DeleteWhere(subscriptions, "user_id", deletion.userId)
         /\ deletion' =
                [deletion EXCEPT
                   !.ops = Append(@, Did("delete_subscriptions", deletion.userId,
                                         ~deleteSubError)),
                   !.pc = "deleteProfile"]
    /\ UNCHANGED <<identities, nextId, profiles, Others>>

\* A profile delete whose error ends the request with a failure answer.
DeleteUserProfileOrFail ==
    /\ deletion.pc = "deleteProfile"
    /\ \E deleteProfileError \in BOOLEAN :
         /\ profiles' = IF deleteProfileError THEN profiles
                         ELSE DeleteWhere(profiles, "id", deletion.userId)
         /\ deletion' =
                IF deleteProfileError
                THEN Answer([deletion EXCEPT
                                !.ops = Append(@, Did("delete_profile",
                                                      deletion.userId, FALSE))],
                            500)
                ELSE [deletion EXCEPT
                         !.ops = Append(@, Did("delete_profile", deletion.userId,
                                               TRUE)),
                         !.pc = "deleteUser"]
    /\ UNCHANGED <<identities, nextId, subscriptions, Others>>

\* 114-124: delete from user_profiles where id = userId
DeleteUserProfile ==
    /\ deletion.pc = "deleteProfile"
    /\ \E deleteProfileError \in BOOLEAN :
         /\ profiles' = IF deleteProfileError THEN profiles
                         ELSE DeleteWhere(profiles, "id", deletion.userId)
         /\ deletion' =
                [deletion EXCEPT
                   !.ops = Append(@, Did("delete_profile", deletion.userId,
                                         ~deleteProfileError)),
                   !.pc = "deleteUser"]
    /\ UNCHANGED <<identities, nextId, subscriptions, Others>>

\* 127-154: auth.admin.deleteUser and the answer
DeleteUser ==
    /\ deletion.pc = "deleteUser"
    /\ \E deleteUserError \in BOOLEAN :
         /\ identities' = IF deleteUserError THEN identities
                           ELSE {u \in identities : u.id # deletion.userId}
         /\ deletion' =
                Answer([deletion EXCEPT
                           !.ops = Append(@, Did("delete_user", deletion.userId,
                                                 ~deleteUserError))],
                       DeleteUserStatus(deleteUserError))
    /\ UNCHANGED <<nextId, profiles, subscriptions, Others>>

\* The rows the webhook may have left: at most one per subscription id,
\* linked to an identity or to none.
StoredSubscriptions(users, customers) ==
    LET Row(s, u, c, n) ==
            [user_id |-> u, stripe_subscription_id |-> s,
             stripe_customer_id |-> c, status |-> n.status,
             current_period_start |-> ToISOString(n.period[1]),
             current_period_end |-> ToISOString(n.period[2])]
        owners == {u.id : u \in users} \cup {Null}
        RowsFor(s) == {Row(s, u, c, n) : u \in owners, c \in customers,
                                         n \in Snapshots}
    IN  {<<>>}
            \cup {<<a>> : a \in RowsFor("sub_1") \cup RowsFor("sub_2")}
            \cup {<<a, b>> : a \in RowsFor("sub_1"), b \in RowsFor("sub_2")}

\* The profiles the webhook may have left: at most one per identity.
StoredProfiles(users, customers) ==
    LET Profile(u, c, status) ==
            [id |-> u.id, email |-> u.email, stripe_customer_id |-> c,
             subscription_status |-> status]
        Of(userId) ==
            {<<>>} \cup {<<Profile(u, c, status)>> :
                            u \in {v \in users : v.id = userId},
                            c \in customers,
                            status \in {"active", "inactive"}}
    IN  {a \o b : a \in Of("user_1"), b \in Of("user_2")}

InitDelete ==
    /\ identities \in SUBSET Accounts
    /\ nextId = 3
    /\ profiles \in StoredProfiles(identities, Customers)
    /\ subscriptions \in StoredSubscriptions(identities, Customers)
    /\ pc = [h \in Handlers |-> "idle"]
    /\ loc = [h \in Handlers |-> IdleLoc]
    /\ delivered = 0
    /\ response = NoResponse
    /\ sigIn = <<>>
    /\ sigOut = Null
    /\ replayed = NoEvent
    /\ acks = 0
    /\ corrIn = NoInput
    /\ corrOut = NoOutput
    /\ checkoutIn = NoInput
    /\ checkoutOut = NoOutput
    /\ poller = NoPoller
    /\ deletion \in DeleteRequests

NextDelete ==
    \/ Authenticate
    \/ SelectSubscription
    \/ CancelSubscription
    \/ DeleteSubscriptionRecord
    \/ DeleteUserProfile
    \/ DeleteUser

SpecDelete == InitDelete /\ [][NextDelete]_vars

(***************************************************************************)
(* A lifecycle event (customer.subscription.updated / deleted) delivered   *)
(* to stores that hold rows and profiles of two customers.                 *)
(***************************************************************************)
BothCustomers == Customers \cup {"cus_2"}

InitLifecycle ==
    /\ identities = Accounts
    /\ nextId = 3
    /\ profiles \in StoredProfiles(identities, BothCustomers)
    /\ subscriptions \in StoredSubscriptions(identities, BothCustomers)
    /\ pc = [h \in Handlers |-> "idle"]
    /\ loc = [h \in Handlers |-> IdleLoc]
    /\ delivered = 0
    /\ response = NoResponse
    /\ sigIn = <<>>
    /\ sigOut = Null
    /\ replayed \in {e \in LifecycleEvents : e.id = "sub_1"}
    /\ acks = 0
    /\ corrIn = NoInput
    /\ corrOut = NoOutput
    /\ checkoutIn = NoInput
    /\ checkoutOut = NoOutput
    /\ poller = NoPoller
    /\ deletion = NoDeletion

NextLifecycle ==
    \/ \E h \in Handlers :
        \/ SubscriptionUpdatedOrDeleted(h)
        \/ UpdateSubscription(h)
        \/ UpdateProfile(h)
    \/ Sent

SpecLifecycle == InitLifecycle /\ [][NextLifecycle]_vars

(***************************************************************************)
(* A subscriber asks for the deletion of the account while the provider    *)
(* delivers, or delivers again, the events of the checkout that made it:   *)
(* delete-account and the webhook run side by side on the same stores.     *)
(***************************************************************************)
Subscriber == CHOOSE u \in Accounts : u.id = NewUserId(1)

\* The events of the subscriber's checkout, which the provider may deliver
\* more than once.
OriginalEvents ==
    {e \in CheckoutEvents : /\ e.subscription = "sub_1"
                            /\ e.customer_email = Subscriber.email
                            /\ e.userPassword = Subscriber.password}
        \cup {e \in CreatedEvents : e.id = "sub_1"}

InitAccount ==
    /\ identities = {Subscriber}
    /\ nextId = 2
    /\ profiles \in {p \in StoredProfiles(identities, Customers) :
                         /\ Len(p) = 1
                         /\ p[1].subscription_status = "active"}
    /\ subscriptions \in {r \in StoredSubscriptions(identities, Customers) :
                              /\ Len(r) = 1
                              /\ r[1].stripe_subscription_id = "sub_1"
                              /\ r[1].user_id = Subscriber.id
                              /\ r[1].status = "active"}
    /\ pc = [h \in Handlers |-> "idle"]
    /\ loc = [h \in Handlers |-> IdleLoc]
    /\ delivered = 0
    /\ response = NoResponse
    /\ sigIn = <<>>
    /\ sigOut = Null
    /\ replayed \in OriginalEvents
    /\ acks = 0
    /\ corrIn = NoInput
    /\ corrOut = NoOutput
    /\ checkoutIn = NoInput
    /\ checkoutOut = NoOutput
    /\ poller = NoPoller
    /\ deletion \in {d \in DeleteRequests :
                         /\ d.method = "POST"
                         /\ d.configured
                         /\ d.authHeader = <<"Bearer ", AccessToken(Subscriber.id)>>}

NextAccount ==
    \/ \E h \in Handlers :
            \/ CheckoutCompleted(h)
            \/ ListUsers(h)
            \/ UpdateUserById(h)
            \/ CreateUserStep(h)
            \/ UpsertUnlinked(h)
            \/ UpsertLinked(h)
            \/ UpsertProfile(h)
            \/ SubscriptionCreated(h)
            \/ ListUsersCreated(h)
            \/ UpdateUserByIdCreated(h)
            \/ CreateUserCreated(h)
            \/ UpsertCreated(h)
            \/ UpsertProfileCreated(h)
    \/ Sent
    \/ Authenticate
    \/ SelectSubscription
    \/ CancelSubscription
    \/ DeleteSubscriptionRecord
    \/ DeleteUserProfile
    \/ DeleteUser

SpecAccount == InitAccount /\ [][NextAccount]_vars

\* A request or a delivery that has started is run to its answer, and the
\* provider goes on delivering while deliveries are left.
SpecAccountFair == SpecAccount /\ WF_vars(NextAccount)

(***************************************************************************)
(* From the checkout request to the webhook: the session the Checkout      *)
(* Initiator created is paid, and the provider delivers its                *)
(* checkout.session.completed event, metadata as stamped, to the webhook.  *)
(***************************************************************************)
\* The event of a paid session: the session object with its subscription.
\* The provider keeps no metadata key whose value is the empty string, so
\* a userId stamped '' comes back as '' or as absent.
CompletedEvents(session) ==
    {[type |-> "checkout.session.completed", subscription |-> s,
      customer_email |-> session.customer_email, userId |-> u,
      userEmail |-> session.userEmail, userPassword |-> session.userPassword] :
        s \in Subs,
        u \in IF session.userId = "" THEN {"", Null} ELSE {session.userId}}

CompleteCheckout ==
    /\ checkoutOut.done
    /\ checkoutOut.sessions # <<>>
    /\ replayed = NoEvent
    /\ replayed' \in CompletedEvents(checkoutOut.sessions[1])
    /\ UNCHANGED <<Stores, pc, loc, delivered, response, sigIn, sigOut, acks,
                   Correlation, Checkout, poller, deletion>>

\* The event of the paid session reaches the webhook; before the session
\* is paid there is nothing to deliver.
DeliverCompleted(h) ==
    /\ replayed # NoEvent
    /\ CheckoutCompleted(h)

NextRoundTrip ==
    \/ ServeCheckout
    \/ CompleteCheckout
    \/ \E h \in Handlers :
            \/ DeliverCompleted(h)
            \/ ListUsers(h)
            \/ UpdateUserById(h)
            \/ CreateUserStep(h)
            \/ UpsertNoPassword(h)
            \/ UpsertUnlinked(h)
            \/ UpsertLinked(h)
            \/ UpsertProfile(h)
    \/ Sent

SpecRoundTrip == InitCheckout /\ [][NextRoundTrip]_vars

(***************************************************************************)
(* Properties                                                              *)
(***************************************************************************)
RowsOf(subscriptionId) ==
    {i \in 1..Len(subscriptions) :
        subscriptions[i].stripe_subscription_id = subscriptionId}

Answered == response # NoResponse

HandledTypes ==
    {"checkout.session.completed", "customer.subscription.created",
     "customer.subscription.updated", "customer.subscription.deleted"}

ProvisioningTypes ==
    {"checkout.session.completed", "customer.subscription.created"}

\* C1: after any interleaving of verified deliveries the subscriptions store
\* holds at most one row per stripe_subscription_id.
AtMostOneRecordPerSubscription ==
    \A s \in Subs : Cardinality(RowsOf(s)) <= 1

\* A checkout-completed delivery answers having saved its subscription while
\* a subscription-created delivery for the same subscription, which has
\* saved it too, is still running.
WitnessTwoWritersOneRecord ==
    /\ Answered
    /\ response.type = "checkout.session.completed"
    /\ response.wrote \in {"linked", "omitted"}
    /\ \E h \in Handlers :
          /\ pc[h] = "upsert_profile_created"
          /\ loc[h].subscriptionId = response.subscriptionId
    /\ Cardinality(RowsOf(response.subscriptionId)) = 1

\* C2: once a row has a non-null user_id, no step of the webhook handler
\* leaves a row of that subscription with user_id null.
UserIdMonotonic ==
    [][\A i \in 1..Len(subscriptions) :
           subscriptions[i].user_id # Null =>
               \A j \in 1..Len(subscriptions') :
                   subscriptions'[j].stripe_subscription_id
                       = subscriptions[i].stripe_subscription_id
                   => subscriptions'[j].user_id # Null]_vars

\* C3: a verified event of a handled type that is answered 200 leaves a row
\* keyed by its subscription id.
AcceptedEventLeavesRecord ==
    (Answered /\ response.signed /\ response.status = 200
        /\ response.type \in HandledTypes)
    => RowsOf(response.subscriptionId) # {}

\* C4: when the same subscription event has been delivered twice and both
\* deliveries have been answered 200, there is exactly one row for its
\* subscription, holding the status and period bounds of the event.
ReplayLeavesOneRecordWithSnapshot ==
    (acks >= 2 /\ \A h \in Handlers : pc[h] = "idle")
    => /\ Cardinality(RowsOf(replayed.id)) = 1
       /\ \A i \in RowsOf(replayed.id) :
             /\ subscriptions[i].status = replayed.status
             /\ subscriptions[i].current_period_start = ToISOString(replayed.period[1])
             /\ subscriptions[i].current_period_end = ToISOString(replayed.period[2])

\* C5: the identity store never holds two identities for one email.
NoTwoIdentitiesPerEmail ==
    \A u \in identities : \A v \in identities : u.email = v.email => u = v

\* An invocation that found no identity for its email is about to create
\* one while another invocation has created it in the meantime.
WitnessCreateRace ==
    \E h \in Handlers :
        /\ pc[h] \in {"createUser", "createUser_created"}
        /\ EmailTaken(identities, loc[h].userEmail)

\* C6: when an invocation whose createUser met the duplicate conflict has
\* answered and no invocation is running, the row of its subscription is
\* linked to the one identity of its email.
LoserRecordLinked ==
    (Answered /\ response.outcome = "create_conflict"
        /\ \A h \in Handlers : pc[h] = "idle")
    => \A i \in RowsOf(response.subscriptionId) :
          \E u \in identities : subscriptions[i].user_id = u.id

\* C7: the delivery is taken as a trusted event exactly when the provider
\* signed it: the header has a timestamp (its first t= element, not empty)
\* and a v1 candidate equal to the HMAC of timestamp "." body under the
\* endpoint's secret.
TrustedIffSignedByProvider ==
    sigOut # Null => (sigOut = "ok" <=> SignedByProvider(sigIn[1], sigIn[2]))

\* A header whose first v1 candidate is wrong and whose second is the
\* provider's signature has been accepted.
WitnessSecondCandidateAccepted ==
    /\ sigOut = "ok"
    /\ Len(Signatures(sigIn[1])) >= 2
    /\ Signatures(sigIn[1])[1]
         # HmacSha256Hex(STRIPE_WEBHOOK_SECRET,
                         SignedPayload(Timestamp(sigIn[1]), sigIn[2]))

\* C8: a delivery the provider did not sign is never taken up by the
\* handler, and the step that answers it changes none of the three stores
\* and has made no call to the payment provider.
UnsignedDeliveryChangesNothing ==
    /\ [](\A h \in Handlers : loc[h].signed)
    /\ [][(response' # NoResponse /\ ~response'.signed)
            => (response'.calls = 0 /\ UNCHANGED Stores)]_vars

\* A delivery with a wrong signature has been answered while the stores
\* hold an identity and a subscription row.
WitnessUnsignedRejected ==
    /\ Answered
    /\ ~response.signed
    /\ response.outcome = "mismatch"
    /\ identities # {}
    /\ Len(subscriptions) > 0

\* C9: the endpoint answers 4xx exactly for the deliveries that fail
\* authentication.
ClientErrorIffUnauthenticated ==
    Answered => ((response.status \in 400..499) <=> ~response.signed)

UnresolvedOutcomes == {"no_email", "no_password", "create_failed", "create_conflict"}

\* C10: when the identity is not resolved, or identity creation
\* or the credential update fails, the handler answers 200 and the row of
\* the subscription is there with no user link.
ProvisioningFailureLeavesUnlinkedRecord ==
    (Answered /\ response.type \in ProvisioningTypes
        /\ response.outcome \in UnresolvedOutcomes \cup {"update_failed"})
    => /\ response.status = 200
       /\ RowsOf(response.subscriptionId) # {}
       /\ \A i \in RowsOf(response.subscriptionId) : subscriptions[i].user_id = Null

\* C11: whenever the save of the subscription row fails while a verified
\* event is handled, the handler answers with a failure status, not 200.
SaveFailureSurfaces ==
    (Answered /\ response.signed /\ response.wrote = "error")
    => response.status # 200

\* C12: a verified delivery during which a lookup at the payment provider
\* failed is answered 200 (here the lookup that leaves a trace in the
\* answer: stripe.subscriptions.retrieve).
ProviderFailureNotPropagated ==
    (Answered /\ response.signed /\ response.outcome = "provider_error")
    => response.status = 200

\* The listed sessions of this subscription, and those of the last hour.
Matching == {i \in 1..Len(corrIn.data) :
                corrIn.data[i].subscription = corrIn.subscriptionId}

InWindow == {i \in 1..Len(corrIn.data) :
                corrIn.data[i].created > corrIn.now - RecencyWindow}

\* Email, secret and userId are those of the i-th listed session.
TakenFrom(i) ==
    corrOut = [done |-> TRUE]
                @@ TakeFromSession(BeforeSessions(corrIn.email), <<corrIn.data[i]>>)

\* C13: when a listed session has the event's subscription id, email, secret
\* and userId are taken from such a session, even when a session of the
\* last hour is newer; when none has it, they are taken from the newest
\* session of the last hour.
ExactMatchPreferred ==
    corrOut.done =>
        /\ Matching # {} => \E i \in Matching : TakenFrom(i)
        /\ (Matching = {} /\ InWindow # {}) =>
              \E i \in InWindow :
                  /\ \A j \in InWindow :
                         corrIn.data[j].created <= corrIn.data[i].created
                  /\ TakenFrom(i)

\* C14: with exactly one listed session in the last hour, email and secret
\* are that session's; with no session of this subscription and none in
\* the last hour, the customer's email is kept with no secret and no userId.
CorrelatorFallback ==
    corrOut.done =>
        /\ Cardinality(InWindow) = 1 => \A i \in InWindow : TakenFrom(i)
        /\ (Matching = {} /\ InWindow = {}) =>
              corrOut = [done |-> TRUE] @@ BeforeSessions(corrIn.email)

\* An older session of this subscription is listed first, the only session
\* of the last hour second, and the secret of the second has been taken.
WitnessOneInWindow ==
    /\ corrOut.done
    /\ Len(corrIn.data) = 2
    /\ InWindow = {2}
    /\ Matching = {1}
    /\ corrIn.data[1].userPassword = Null
    /\ corrOut.userPassword = "abcdef"

\* C15: a checkout-completed invocation that carries a secret and finds no
\* identity for its email goes on to create one; when its createUser adds
\* an identity, it is one identity with that email, the secret as
\* credential and the email confirmed; and its save writes the one row of
\* the subscription with the new identity's id and the provider's status.
NewIdentityFromSecret ==
    [][\A h \in Handlers :
          LET l == loc[h]
          IN  pc'[h] # pc[h] =>
                /\ (pc[h] = "listUsers" /\ HasPassword(l.userPassword)
                        /\ ~EmailTaken(identities, l.userEmail))
                   => pc'[h] = "createUser"
                /\ (pc[h] = "createUser" /\ identities' # identities)
                   => /\ pc'[h] = "upsert_linked"
                      /\ identities' = identities \cup
                             {[id |-> loc'[h].userId, email |-> l.userEmail,
                               password |-> l.userPassword, email_confirm |-> TRUE]}
                /\ (pc[h] = "upsert_linked" /\ l.outcome = "created"
                        /\ pc'[h] = "upsert_profile")
                   => \E i \in 1..Len(subscriptions') :
                         /\ subscriptions'[i].stripe_subscription_id = l.subscriptionId
                         /\ subscriptions'[i].user_id = l.userId
                         /\ subscriptions'[i].status = l.status
                         /\ \A j \in 1..Len(subscriptions') :
                               subscriptions'[j].stripe_subscription_id
                                   = l.subscriptionId => j = i]_vars

\* C16: the save of an invocation that found no identity for its email and
\* had no secret (none, empty or blank) leaves identities and profiles as
\* they are, and when the invocation then answers 200 the row of its
\* subscription is there with no user link.
NoSecretNoIdentity ==
    [][\A h \in Handlers :
          (pc'[h] # pc[h] /\ loc[h].outcome = "no_password")
          => /\ UNCHANGED <<identities, nextId, profiles>>
             /\ response'.status = 200
                => \E i \in 1..Len(subscriptions') :
                      /\ subscriptions'[i].stripe_subscription_id
                             = loc[h].subscriptionId
                      /\ subscriptions'[i].user_id = Null]_vars

\* C17: with the function configured, a checkout request whose priceId,
\* userEmail or userPassword is absent or empty is answered 4xx and no
\* checkout session is created.
MissingFieldIsClientError ==
    (/\ checkoutOut.done
     /\ checkoutIn.method = "POST"
     /\ ~Falsy(checkoutIn.STRIPE_SECRET_KEY)
     /\ checkoutIn.body.kind = "object"
     /\ \/ Falsy(checkoutIn.body.priceId)
        \/ Falsy(checkoutIn.body.userEmail)
        \/ Falsy(checkoutIn.body.userPassword))
    => /\ checkoutOut.status \in 400..499
       /\ checkoutOut.sessions = <<>>

\* C18: the page makes at most 10 sign-in attempts after one redirect back
\* from checkout.
AttemptsAtMostTen ==
    poller.pc # "off" => poller.attempts <= 10

\* C19: the step by which the page shows success is taken in a state where
\* the sign-in has given a user and the subscriptions table holds an active
\* row linked to that user.
SuccessOnlyWhenSubscribed ==
    [][(poller.pc # "done" /\ poller'.pc = "done" /\ poller'.shown = "success")
        => /\ poller.user # Null
           /\ \E i \in 1..Len(subscriptions) :
                 /\ subscriptions[i].user_id = poller.user
                 /\ subscriptions[i].status = "active"]_vars

\* C20: a page that has made an attempt and has stopped scheduling attempts
\* shows success or one of the two still-processing messages.
StoppedPollerShowsOutcome ==
    (poller.pc = "done" /\ poller.attempts > 0)
    => poller.shown \in {"success", "being_processed", "taking_longer"}

\* C21: once the page has started, what it shows is one of three states:
\* reconciling ("processing"), success, or taking longer than expected (the
\* two still-processing messages); never an error text.
PollerShowsThreeStates ==
    poller.pc \notin {"off", "start"}
    => poller.shown \in {"processing", "success", "being_processed", "taking_longer"}

\* The webhook pipeline has completed for the page's email: an identity
\* with that email is there and an active row is linked to it.
PipelineComplete ==
    \E u \in identities :
        /\ u.email = poller.email
        /\ \E i \in 1..Len(subscriptions) :
              /\ subscriptions[i].user_id = u.id
              /\ subscriptions[i].status = "active"

\* C22: when the pipeline has completed for the page's email while the page
\* still has an attempt to make, and the page's calls are answered, the
\* page comes to show success (unless a later delivery undoes the
\* completion first).
CompletedPipelineLeadsToSuccess ==
    (/\ poller.pc \in {"start", "timer"}
     /\ poller.pending
     /\ poller.service = "up"
     /\ PipelineComplete)
    ~> (poller.shown = "success" \/ ~PipelineComplete)

\* The deletion request has been answered with this status.
Deleted(status) ==
    /\ deletion.pc = "done"
    /\ deletion.method = "POST"
    /\ deletion.status = status

\* What the handler asked for, in order, and what of it was done.
Asked(ops) == [i \in 1..Len(ops) |-> ops[i].op]

AllDone(ops) == \A i \in 1..Len(ops) : ops[i].ok

\* C23: a deletion for an identity with one linked subscription row, whose
\* calls all succeed, cancels the subscription, then deletes the row, then
\* the profile, then the identity; afterwards no row and no profile of the
\* user is left and the lookup by the user's email finds nothing.
DeletionRemovesInOrder ==
    (Deleted(200) /\ Cardinality(deletion.linked) = 1 /\ AllDone(deletion.ops))
    => /\ Asked(deletion.ops) = <<"select", "cancel", "delete_subscriptions",
                                  "delete_profile", "delete_user">>
       /\ \A i \in 1..Len(subscriptions) : subscriptions[i].user_id # deletion.userId
       /\ \A i \in 1..Len(profiles) : profiles[i].id # deletion.userId
       /\ FindUserByEmail(identities, deletion.userEmail) = Null

\* The deletion for user_1, who had one linked row and a profile, has
\* succeeded, and the row and the profile of the other user are still there.
WitnessAccountRemoved ==
    /\ Deleted(200)
    /\ deletion.linked = {"sub_1"}
    /\ AllDone(deletion.ops)
    /\ Len(subscriptions) = 1
    /\ subscriptions[1].user_id = "user_2"
    /\ Len(profiles) = 1
    /\ identities # {}

\* C24: a deletion request is answered 200 only when the step that
\* answers has deleted the identity, which is then gone; when deleteUser
\* fails the answer is a failure status, whatever became of the cancel
\* and of the two deletes before it.
SuccessOnlyAfterIdentityDeleted ==
    /\ Deleted(200) =>
          /\ Len(deletion.ops) > 0
          /\ deletion.ops[Len(deletion.ops)] = Did("delete_user", deletion.userId, TRUE)
          /\ \A u \in identities : u.id # deletion.userId
    /\ (deletion.pc = "done"
            /\ \E i \in 1..Len(deletion.ops) :
                   deletion.ops[i].op = "delete_user" /\ ~deletion.ops[i].ok)
       => deletion.status \in 400..599

\* The cancel and both deletes succeeded, deleteUser failed, and the
\* answer is 500 with the identity still there.
WitnessIdentityDeletionFailed ==
    /\ Deleted(500)
    /\ Asked(deletion.ops) = <<"select", "cancel", "delete_subscriptions",
                               "delete_profile", "delete_user">>
    /\ \A i \in 1..4 : deletion.ops[i].ok
    /\ ~deletion.ops[5].ok
    /\ \E u \in identities : u.id = deletion.userId

\* C25: when a deletion whose calls all succeeded is answered 200, a cancel
\* has been asked for every subscription that was linked to the user, and
\* no row linked to the user is left.
EveryLinkedRecordRemoved ==
    (Deleted(200) /\ AllDone(deletion.ops))
    => /\ \A s \in deletion.linked :
             \E i \in 1..Len(deletion.ops) :
                 deletion.ops[i].op = "cancel" /\ deletion.ops[i].target = s
       /\ \A i \in 1..Len(subscriptions) : subscriptions[i].user_id # deletion.userId

\* The request carries no identity's access token, as a bearer credential
\* or bare.
Unresolved ==
    \A u \in identities :
        deletion.authHeader \notin {<<"Bearer ", AccessToken(u.id)>>,
                                    <<AccessToken(u.id)>>}

\* C26: with the function configured, a request without an authorization
\* header, or whose credential resolves to no identity, is answered 401 by
\* its first step, which asks for no cancel and no delete and leaves the
\* three stores as they are.
UnauthenticatedDeletionRejected ==
    [][(deletion.pc = "request" /\ deletion.method = "POST"
            /\ deletion.configured /\ Unresolved)
        => /\ deletion'.pc = "done"
           /\ deletion'.status = 401
           /\ deletion'.ops = <<>>
           /\ UNCHANGED Stores]_vars

\* A request with a forged bearer credential has been answered 401 while
\* the stores hold an identity with a linked row and a profile.
WitnessForgedTokenRejected ==
    /\ Deleted(401)
    /\ deletion.authHeader = <<"Bearer ", "jwt_forged">>
    /\ deletion.configured
    /\ \E u \in identities :
          /\ \E i \in 1..Len(subscriptions) : subscriptions[i].user_id = u.id
          /\ \E i \in 1..Len(profiles) : profiles[i].id = u.id

\* C27: an invocation that receives a non-empty userId with a checkout or
\* subscription-created event goes straight to the save; none of its steps
\* reads the identity list or changes an identity; the row it saves carries
\* that userId and the profile it saves has that id, no other profile
\* being touched.
GivenUserIdTrusted ==
    [][\A h \in Handlers :
          LET l == loc[h]
              n == loc'[h]
          IN  /\ (pc[h] = "idle" /\ pc'[h] # "idle"
                      /\ n.type \in ProvisioningTypes /\ ~Falsy(n.userId))
                 => /\ pc'[h] \in {"upsert_linked", "upsert_created"}
                    /\ n.outcome = "trusted"
              /\ (l.outcome = "trusted" /\ pc'[h] # pc[h])
                 => /\ UNCHANGED <<identities, nextId>>
                    /\ pc[h] \in {"upsert_linked", "upsert_created", "upsert_profile",
                                   "upsert_profile_created"}
                    /\ pc'[h] \in {"upsert_profile", "upsert_profile_created"}
                       => \E i \in 1..Len(subscriptions') :
                             /\ subscriptions'[i].stripe_subscription_id = l.subscriptionId
                             /\ subscriptions'[i].user_id = l.userId
                    /\ profiles' # profiles
                       => /\ \E i \in 1..Len(profiles') : profiles'[i].id = l.userId
                          /\ \A i \in 1..Len(profiles) :
                                profiles[i].id # l.userId => profiles'[i] = profiles[i]]_vars

\* A checkout-completed delivery that carried a userId has answered 200
\* with its row and its profile linked to that userId, while the identity
\* store holds another identity, created for the email of another delivery.
WitnessTrustedWhileIdentityExists ==
    /\ Answered
    /\ response.type = "checkout.session.completed"
    /\ response.outcome = "trusted"
    /\ response.status = 200
    /\ identities # {}
    /\ \E i \in RowsOf(response.subscriptionId) : subscriptions[i].user_id = PreUser
    /\ \E i \in 1..Len(profiles) : profiles[i].id = PreUser

\* C28: an invocation that finds an identity for its email and carries a
\* non-empty secret goes on to overwrite that identity's credential; the
\* overwrite, when it takes effect, sets the credential of that identity to
\* the secret and adds no identity; after a failed overwrite the save, if
\* it does not fail itself, leaves the row linked to that identity, and the
\* invocation answers 200.
ExistingIdentityCredentialOverwritten ==
    [][\A h \in Handlers :
          LET l == loc[h]
          IN  pc'[h] # pc[h] =>
                /\ (pc[h] \in {"listUsers", "listUsers_created"}
                        /\ ~Falsy(l.userPassword)
                        /\ pc'[h] \notin {"createUser", "createUser_created",
                                          "upsert_no_password"}
                        /\ ~Falsy(loc'[h].userId))
                   => pc'[h] \in {"updateUserById", "updateUserById_created"}
                /\ pc[h] \in {"updateUserById", "updateUserById_created"}
                   => /\ nextId' = nextId
                      /\ identities' # identities
                         => identities' =
                               {IF u.id = l.userId
                                THEN [u EXCEPT !.password = l.userPassword]
                                ELSE u : u \in identities}
                /\ (l.outcome = "update_failed"
                        /\ pc[h] \in {"upsert_linked", "upsert_created"}
                        /\ subscriptions' # subscriptions)
                   => \E i \in 1..Len(subscriptions') :
                         /\ subscriptions'[i].stripe_subscription_id = l.subscriptionId
                         /\ subscriptions'[i].user_id = l.userId
                /\ (l.outcome = "update_failed"
                        /\ pc[h] \in {"upsert_profile", "upsert_profile_created"})
                   => response'.status = 200]_vars

\* C29: when a checkout-completed or subscription-created event has been
\* saved with a userId and answered 200, the profile with that id is there
\* with subscription_status 'active' if the provider's status is 'active'
\* and 'inactive' otherwise; and a step of such an invocation changes
\* profiles only by writing that one profile so, never without a userId.
ProfileProjectionFollowsStatus ==
    /\ []((Answered /\ response.type \in ProvisioningTypes
               /\ response.status = 200 /\ response.wrote = "linked")
           => \E i \in 1..Len(profiles) :
                 /\ profiles[i].id = response.userId
                 /\ profiles[i].subscription_status
                        = (IF response.snapshot.status = "active" THEN "active"
                           ELSE "inactive"))
    /\ [][\A h \in Handlers :
              LET l == loc[h]
              IN  (pc'[h] # pc[h] /\ l.type \in ProvisioningTypes
                      /\ profiles' # profiles)
                  => /\ ~Falsy(l.userId)
                     /\ \E i \in 1..Len(profiles') :
                           /\ profiles'[i].id = l.userId
                           /\ profiles'[i].subscription_status
                                  = (IF l.status = "active" THEN "active"
                                     ELSE "inactive")
                     /\ \A i \in 1..Len(profiles) :
                           profiles[i].id # l.userId => profiles'[i] = profiles[i]]_vars

\* The two rows agree on every column but those named.
SameBut(row, other, columns) ==
    /\ DOMAIN row = DOMAIN other
    /\ \A c \in DOMAIN row \ columns : row[c] = other[c]

\* C30: no step taken while a subscription-updated or -deleted event is
\* handled adds or removes a row, a profile or an identity or changes a
\* credential; a row changes only if it is the row of the event's
\* subscription id, and then only in status and period bounds; a profile
\* changes only if it has the event's customer id, and then only in
\* subscription_status.
LifecycleEventChangesStatusOnly ==
    [][/\ UNCHANGED <<identities, nextId>>
       /\ Len(subscriptions') = Len(subscriptions)
       /\ \A i \in 1..Len(subscriptions) :
             IF subscriptions[i].stripe_subscription_id = replayed.id
             THEN SameBut(subscriptions'[i], subscriptions[i],
                          {"status", "current_period_start", "current_period_end"})
             ELSE subscriptions'[i] = subscriptions[i]
       /\ Len(profiles') = Len(profiles)
       /\ \A i \in 1..Len(profiles) :
             IF profiles[i].stripe_customer_id = replayed.customer
             THEN SameBut(profiles'[i], profiles[i], {"subscription_status"})
             ELSE profiles'[i] = profiles[i]]_vars

\* A cancellation of sub_1 of customer cus_1 has been handled: the row of
\* sub_1, linked to user_1, is canceled and user_1's profile inactive, while
\* the active row of sub_2 and the active profile of customer cus_2 stand.
WitnessOtherCustomerUntouched ==
    /\ Answered
    /\ response.wrote = "updated"
    /\ replayed.status = "canceled"
    /\ Len(subscriptions) = 2
    /\ subscriptions[1].status = "canceled"
    /\ subscriptions[1].user_id = "user_1"
    /\ subscriptions[2].status = "active"
    /\ Len(profiles) = 2
    /\ profiles[1].stripe_customer_id = replayed.customer
    /\ profiles[1].subscription_status = "inactive"
    /\ profiles[2].stripe_customer_id # replayed.customer
    /\ profiles[2].subscription_status = "active"

\* C39: the step that answers a verified event of a type the switch does
\* not name answers 200 and leaves identities, profiles and subscriptions
\* as they are.
UnhandledEventAcknowledged ==
    [][(response' # NoResponse /\ response'.signed
            /\ response'.type \notin HandledTypes \cup {Null})
        => (response'.status = 200 /\ UNCHANGED Stores)]_vars

\* An invoice.paid event has been answered 200 while the identity store
\* holds an identity that another invocation has just created and is about
\* to link its row to.
WitnessUnhandledWhileSaving ==
    /\ Answered
    /\ response.type = "invoice.paid"
    /\ response.status = 200
    /\ identities # {}
    /\ \E h \in Handlers : pc[h] \in {"upsert_linked", "upsert_created"}

\* C38: a step of an invocation that creates an identity or overwrites a
\* credential stores exactly the hand-off secret the event carries (the one
\* the Checkout Initiator stamped and the page kept), so that a sign-in
\* with that email and that secret yields the identity.
StoredCredentialIsKeptSecret ==
    [][\A h \in Handlers :
          LET l == loc[h]
          IN  (pc'[h] # pc[h]
                  /\ pc[h] \in {"createUser", "createUser_created",
                                 "updateUserById", "updateUserById_created"}
                  /\ identities' # identities)
              => /\ \E u \in identities' :
                       /\ u.id = loc'[h].userId
                       /\ u.password = l.userPassword
                 /\ SignInWithPassword(identities', l.userEmail, l.userPassword)
                        = loc'[h].userId]_vars

\* The steps of a deletion after the lookup, in the order of the code.
DeletionSteps == <<"cancel", "delete_subscriptions", "delete_profile", "delete_user">>

\* C35: when the cancel, the delete of the subscription rows or the delete
\* of the profile has failed, the answered request has still asked for every
\* later step in order, the identity deletion last; and when that one
\* succeeded the identity is gone and the answer is 200.
FailureDoesNotStopDeletion ==
    deletion.pc = "done"
    => \A i \in 1..Len(deletion.ops) :
          (deletion.ops[i].op \in {"cancel", "delete_subscriptions", "delete_profile"}
              /\ ~deletion.ops[i].ok)
          => LET asked == Asked(deletion.ops)
                 from == CHOOSE k \in 1..Len(DeletionSteps) :
                            DeletionSteps[k] = deletion.ops[i].op
             IN  /\ SubSeq(asked, i, Len(asked))
                        = SubSeq(DeletionSteps, from, Len(DeletionSteps))
                 /\ deletion.ops[Len(asked)].ok
                    => /\ deletion.status = 200
                       /\ \A u \in identities : u.id # deletion.userId

\* A deletion whose cancel and both record deletes failed has deleted the
\* identity and answered 200, the row and the profile left behind.
WitnessDeletedDespiteFailures ==
    /\ Deleted(200)
    /\ Len(deletion.ops) = 5
    /\ \A i \in 2..4 : ~deletion.ops[i].ok
    /\ deletion.ops[5].ok
    /\ \E i \in 1..Len(subscriptions) : subscriptions[i].user_id = deletion.userId
    /\ \E i \in 1..Len(profiles) : profiles[i].id = deletion.userId

\* C34: once the page shows success the poller takes no further step (no
\* sign-in attempt, no retry); and among the first ten attempts, every
\* attempt that ends without success (sign-in refused or failing, no active
\* subscription found, or a throw) schedules one retry: the retry count
\* grows by one, the timer is pending, and the page shows what it showed.
RetryAfterEveryFailureNoneAfterSuccess ==
    /\ [](poller.pc # "off" /\ poller.shown = "success" => poller.pc = "done")
    /\ [][poller.pc # "off" =>
            /\ poller.shown = "success" => poller' = poller
            /\ (poller.pc \in {"timer", "checkSubscription", "checkProfile"}
                   /\ poller' # poller
                   /\ poller'.pc \notin {"checkSubscription", "checkProfile"}
                   /\ poller'.shown # "success"
                   /\ poller'.attempts <= maxRetries)
               => /\ poller'.retries = poller.retries + 1
                  /\ poller'.pc = "timer"
                  /\ poller'.attempts
                        = poller.attempts + (IF poller.pc = "timer" THEN 1 ELSE 0)
                  /\ poller'.shown = poller.shown]_vars

\* The page shows success after three attempts that failed and were each
\* followed by a retry.
WitnessSuccessAfterRetries ==
    /\ poller.pc = "done"
    /\ poller.shown = "success"
    /\ poller.retries = 3
    /\ poller.attempts = 4

\* C33: an accepted checkout request is stamped on the session with its
\* email and secret and with its userId, '' standing for an absent one; the
\* event delivered for the session carries the same email and secret; and
\* the checkout-completed handler, once past the provider's retrieve, holds
\* the request's email, the request's userId with null for an absent or
\* empty one, and, where it goes on to provision, the request's secret.
CorrelationKeysRoundTrip ==
    /\ [](checkoutOut.done /\ checkoutOut.sessions # <<>>
           => LET b == checkoutIn.body
                  session == checkoutOut.sessions[1]
              IN  /\ session.userEmail = b.userEmail
                  /\ session.customer_email = b.userEmail
                  /\ session.userPassword = b.userPassword
                  /\ session.userId = (IF Falsy(b.userId) THEN "" ELSE b.userId)
                  /\ replayed # NoEvent
                     => /\ replayed.userEmail = b.userEmail
                        /\ replayed.userPassword = b.userPassword)
    /\ [][\A h \in Handlers :
            (pc[h] = "idle" /\ pc'[h] # "idle")
            => LET b == checkoutIn.body
               IN  /\ loc'[h].userEmail = b.userEmail
                   /\ loc'[h].userId = (IF Falsy(b.userId) THEN Null ELSE b.userId)
                   /\ pc'[h] = "listUsers"
                      => loc'[h].userPassword = b.userPassword]_vars

\* A request that named user_pre and the secret ' abcdef ' has been
\* accepted, paid and delivered, and an invocation is about to save the
\* row linked to user_pre.
WitnessUserIdReadBack ==
    /\ checkoutOut.done
    /\ checkoutOut.sessions # <<>>
    /\ checkoutIn.body.userId = PreUser
    /\ checkoutIn.body.userPassword = " abcdef "
    /\ replayed # NoEvent
    /\ \E h \in Handlers : pc[h] = "upsert_linked" /\ loc[h].userId = PreUser

\* C32: when an event for a subscription has been answered 200 and no
\* other invocation is running, so that it is the event handled last, the
\* stored row of that subscription has the status this event wrote.
LastHandledStatusStored ==
    (Answered
        /\ response.status = 200
        /\ response.type \in HandledTypes
        /\ response.subscriptionId # Null
        /\ \A h \in Handlers : pc[h] = "idle")
    => \A i \in RowsOf(response.subscriptionId) :
          subscriptions[i].status = response.snapshot.status

\* The rows linked to a user.
LinkedRows(userId) ==
    {i \in 1..Len(subscriptions) : subscriptions[i].user_id = userId}

\* C31: when every delivery so far has been answered 200 or is still to
\* come and no invocation is running, the profile of a user with a single
\* linked row (which is then the row written last for that user) says
\* 'active' exactly when that row's status is 'active'.
ProfileAgreesWithLedger ==
    ((\A h \in Handlers : pc[h] = "idle")
        /\ (Answered => response.status = 200))
    => \A k \in 1..Len(profiles) :
          \A i \in LinkedRows(profiles[k].id) :
             LinkedRows(profiles[k].id) = {i}
             => (profiles[k].subscription_status = "active"
                    <=> subscriptions[i].status = "active")

\* C36: every profile row has the id of exactly one existing identity.
EveryProfileHasItsIdentity ==
    \A k \in 1..Len(profiles) :
       Cardinality({u \in identities : u.id = profiles[k].id}) = 1

\* C37: from a state on in which the deletion of the subscriber's account
\* has been answered 200, the identity is gone and no invocation of the
\* webhook is running (so that every delivery handled from then on is a
\* later one), no identity with the subscriber's email exists again and no
\* row is linked to one.
DeletedAccountStaysDeleted ==
    []((/\ Deleted(200)
        /\ FindUserByEmail(identities, Subscriber.email) = Null
        /\ \A h \in Handlers : pc[h] = "idle")
       => [](/\ FindUserByEmail(identities, Subscriber.email) = Null
             /\ \A i \in 1..Len(subscriptions) :
                   \A u \in identities :
                      u.id = subscriptions[i].user_id
                      => u.email # Subscriber.email))

====
